---- MODULE Spec2Model ----
(***************************************************************************)
(* A state-machine model of the composition and binding core of            *)
(* modular-ui (src/modular-ui.js): the dynamic module resolver             *)
(* (ui._loadScript), the reactive property setters and Set/Get, the        *)
(* per-parent child-creation queue (ui._createControl), the scoped event   *)
(* bus (Dispatcher, ui.emit), removal (ui.RemoveChild) and the sort and    *)
(* filter index (ui._order, ui._filter).                                   *)
(*                                                                         *)
(* JavaScript runs one task at a time.  Every action below is one task     *)
(* (a timer callback, a network callback, a DOM callback, an application   *)
(* call) or one promise continuation; continuations run before the next    *)
(* task is taken.                                                          *)
(***************************************************************************)
EXTENDS Integers, Sequences, FiniteSets, TLC

VARIABLES
  \* ---- module resolver -------------------------------------------------
  cls,             \* class names defined in the page (window scope / window._cls_)
  pendingScripts,  \* per top-level control: this._pendingScripts
  scriptWaiters,   \* per top-level control: once-callbacks on _scriptLoad_<name>
  loads,           \* the load processes started so far (one per fetch issued)
  reqs,            \* the calls of _loadScript made so far, with their promise
  \* ---- control trees ---------------------------------------------------
  ctl,             \* the control instances created so far, by instance number
  timers,          \* pending setTimeout(..., 1) callbacks of Set, in firing order
  fnc,             \* number of function objects / DispatcherEvent objects created
  log,             \* application callbacks invoked by the last task, in order
  err,             \* the error the last task threw ("" if none)
  op               \* what the last task was (its kind and arguments)

loaderVars == <<cls, pendingScripts, scriptWaiters, loads, reqs>>

treeVars == <<ctl, timers, fnc, log, err, op>>

vars == <<cls, pendingScripts, scriptWaiters, loads, reqs,
          ctl, timers, fnc, log, err, op>>

(***************************************************************************)
(* Bounds of the model.                                                    *)
(***************************************************************************)
MaxReq == 2        \* resolution requests issued by controls (not by loads)
MaxCtl == 3        \* control instances, created or asked for
MaxFn == 40        \* function objects created before the application stops
MaxObs == 2        \* application callbacks registered at a time
MaxObsFn == 30     \* function objects created before the application stops registering
MaxCreateReq == 6  \* resolution requests before the application stops calling Set

(***************************************************************************)
(*                        DYNAMIC MODULE RESOLVER                          *)
(***************************************************************************)

\* Two top-level containers mounted in one page (new uiTopLevelContainer()).
Roots == {"top1", "top2"}

\* The control implementations served under this._path.
Types == {"Leaf", "Mid", "Mix"}

\* The types the controls of each tree ask for: the second container holds
\* controls of type Mix only.
AskedFor(r) == IF r = "top1" THEN Types ELSE {"Mix"}

\* What text.match(...) and the replace()/split(/\s+/) chain of _loadScript
\* leave of the first class declaration of <name>.js:
\*   class Leaf extends _uiClasses(Mid, Mix) {   ->  "", "Mid", "Mix", ""
\*   class Mid extends Mix {                     ->  "Mix"
\*   class Mix extends ui {                      ->  "ui" (part of the page)
\* so that Mix is a base type of Leaf both directly and through Mid.
SplitExtends(name) ==
  CASE name = "Leaf" -> <<"", "Mid", "Mix", "">>
    [] name = "Mid"  -> <<"Mix">>
    [] OTHER         -> <<"ui">>

\* The base classes a declaration names (the non-empty words).
DeclaredBases(name) ==
  {SplitExtends(name)[i] : i \in DOMAIN SplitExtends(name)} \ {""}

\* _getDynamicClass(name): eval(name) finds the class iff its script has run
\* and its class declaration could be evaluated.
GetDynamicClass(c, name) == name \in c

\* !this._pendingScripts[className] is false
IsPendingMutant(pend, r, name) == FALSE
IsPending(pend, r, name) == name \in pend[r]

\* One call of _loadScript(name) that reaches top-level control r, made by
\* `by` (0: a control of the tree; l > 0: load process l resolving a base).
\* S is the resolver state [pend, wait, loads, reqs]; the result is the state
\* after the synchronous part of the call.
LoadScriptCall(S, c, r, name, by) ==
  LET id == Len(S.reqs) + 1 IN
  IF GetDynamicClass(c, name)
  THEN \* resolve(): no new class was loaded
       [S EXCEPT !.reqs = Append(@, [root |-> r, name |-> name, by |-> by,
                                     state |-> "resolved", result |-> "undefined",
                                     from |-> 0])]
  ELSE LET S1 == [S EXCEPT
                    !.reqs = Append(@, [root |-> r, name |-> name, by |-> by,
                                        state |-> "waiting", result |-> "none",
                                        from |-> 0]),
                    \* this.once(`_scriptLoad_${className}`, ...)
                    !.wait[r][name] = Append(@, id)]
       IN IF IsPending(S1.pend, r, name)
          THEN S1
          ELSE [S1 EXCEPT !.pend[r] = @ \cup {name},
                          !.loads = Append(@, [root |-> r, name |-> name,
                                               phase |-> "fetch", p |-> <<>>])]

\* this.emit(`_scriptLoad_${className}`, result) by load process l:
\* DispatcherEvent.fire calls every once-callback (each resolves its promise
\* with result) and then unregisters them.
FireScriptLoad(S, l, result) ==
  LET r == S.loads[l].root
      name == S.loads[l].name
      ws == {S.wait[r][name][i] : i \in DOMAIN S.wait[r][name]} IN
  [S EXCEPT !.reqs = [i \in DOMAIN @ |->
                        IF i \in ws /\ @[i].state = "waiting"
                        THEN [@[i] EXCEPT !.state = "resolved", !.result = result,
                                          !.from = l]
                        ELSE @[i]],
            !.wait[r][name] = <<>>]

RECURSIVE CallBases(_, _, _, _, _)
\* match.forEach(async m => _p.push(new Promise(async (resolve) =>
\*   { m && await this._loadScript(m); resolve() }))): the calls are made in
\* order, synchronously; the state after the i-th call is the state the
\* (i+1)-th call sees.
CallBases(S, c, l, ms, i) ==
  IF i > Len(ms) THEN S
  ELSE IF ms[i] = "" THEN CallBases(S, c, l, ms, i + 1)
       ELSE CallBases(LoadScriptCall(S, c, S.loads[l].root, ms[i], l), c, l, ms, i + 1)

\* The promises collected in _p, as the requests they wait for: Promise.all
\* waits for every request made by CallBases.
BasePromisesMutant(S0, S1) == <<>>
BasePromises(S0, S1) ==
  [k \in 1..(Len(S1.reqs) - Len(S0.reqs)) |-> Len(S0.reqs) + k]

ResolverState == [pend |-> pendingScripts, wait |-> scriptWaiters,
                  loads |-> loads, reqs |-> reqs]

SetResolver(S) ==
  /\ pendingScripts' = S.pend
  /\ scriptWaiters' = S.wait
  /\ loads' = S.loads
  /\ reqs' = S.reqs

\* A promise continuation of the resolver is ready to run: `await
\* Promise.all(_p)` of a load whose base requests are all resolved.
BasesSettled(l) ==
  /\ loads[l].phase = "bases"
  /\ \A k \in DOMAIN loads[l].p : reqs[loads[l].p[k]].state = "resolved"

LoaderMicroPending == \E l \in DOMAIN loads : BasesSettled(l)

\* `await this._loadScript(...)` of a _createControl driver can continue: the
\* request the driver of control c waits for has been resolved.
DriverReady(c) ==
  /\ ctl[c].driver # 0
  /\ reqs[ctl[c].driver].state = "resolved"

\* Promise continuations and MutationObserver notifications run before the next task is taken.
MicroPending ==
  \/ LoaderMicroPending
  \/ \E c \in DOMAIN ctl : DriverReady(c) \/ ctl[c].observer.state = "fired"

NumExternal == Cardinality({i \in DOMAIN reqs : reqs[i].by = 0})

\* A control of tree r calls _loadScript(name); every control passes the call
\* to its parent until the top-level control is reached.
Request(r, name) ==
  /\ ~MicroPending
  /\ NumExternal < MaxReq
  /\ SetResolver(LoadScriptCall(ResolverState, cls, r, name, 0))
  /\ UNCHANGED cls

\* fetch() rejects, the response is not ok, or text() rejects: the catch
\* block deletes the marker, emits false and calls resolve().
FetchFail(l) ==
  /\ ~MicroPending
  /\ loads[l].phase = "fetch"
  /\ LET S1 == [ResolverState EXCEPT !.pend[loads[l].root] = @ \ {loads[l].name},
                                     !.loads[l].phase = "failed"]
     IN SetResolver(FireScriptLoad(S1, l, "false"))
  /\ UNCHANGED cls

\* The source text arrives: the extends clause is parsed and the base types
\* are requested; without base types the script element is appended at once.
FetchOk(l) ==
  /\ ~MicroPending
  /\ loads[l].phase = "fetch"
  /\ LET S0 == ResolverState
         S1 == CallBases(S0, cls, l, SplitExtends(loads[l].name), 1)
         ps == BasePromises(S0, S1)
     IN SetResolver([S1 EXCEPT !.loads[l].p = ps,
                               !.loads[l].phase =
                                  IF DeclaredBases(loads[l].name) = {}
                                  THEN "script" ELSE "bases"])
  /\ UNCHANGED cls

\* await Promise.all(_p) returns: document.head.appendChild(script).
StartScript(l) ==
  /\ BasesSettled(l)
  /\ loads' = [loads EXCEPT ![l].phase = "script"]
  /\ UNCHANGED <<cls, pendingScripts, scriptWaiters, reqs>>

\* script.onload: the script has run (its class declaration is evaluated if
\* every class it extends exists), the marker is deleted, true is emitted.
ScriptLoaded(l) ==
  /\ ~MicroPending
  /\ loads[l].phase = "script"
  /\ cls' = IF DeclaredBases(loads[l].name) \subseteq cls
            THEN cls \cup {loads[l].name} ELSE cls
  /\ LET S1 == [ResolverState EXCEPT !.pend[loads[l].root] = @ \ {loads[l].name},
                                     !.loads[l].phase = "done"]
     IN SetResolver(FireScriptLoad(S1, l, "true"))

\* The script element fires 'error': rejectHandler = (event) => {}.
ScriptError(l) ==
  /\ ~MicroPending
  /\ loads[l].phase = "script"
  /\ loads' = [loads EXCEPT ![l].phase = "stuck"]
  /\ UNCHANGED <<cls, pendingScripts, scriptWaiters, reqs>>

LoaderInit ==
  /\ cls = {"ui"}      \* modular-ui.js itself is part of the page
  /\ pendingScripts = [r \in Roots |-> {}]
  /\ scriptWaiters = [r \in Roots |-> [n \in Types |-> <<>>]]
  /\ loads = <<>>
  /\ reqs = <<>>

LoaderStep ==
  \/ \E r \in Roots : \E n \in AskedFor(r) : Request(r, n)
  \/ \E l \in DOMAIN loads : FetchFail(l)
  \/ \E l \in DOMAIN loads : FetchOk(l)
  \/ \E l \in DOMAIN loads : StartScript(l)
  \/ \E l \in DOMAIN loads : ScriptLoaded(l)
  \/ \E l \in DOMAIN loads : ScriptError(l)


(***************************************************************************)
(*                           JAVASCRIPT VALUES                             *)
(***************************************************************************)

\* A number, string or boolean value (typeof in field t).
Num(n) == [t |-> "number", n |-> n, s |-> ""]
Str(s) == [t |-> "string", n |-> 0, s |-> s]
Bool(b) == [t |-> "boolean", n |-> IF b THEN 1 ELSE 0, s |-> ""]

\* Not-a-number (the numbers of the model are naturals).
NaN == 0 - 1

\* Number(s) for a string s: "" and numeric literals convert, others are NaN.
StringToNumber(s) ==
  CASE s = "" -> 0
    [] s = "0" -> 0
    [] s = "1" -> 1
    [] s = "2" -> 2
    [] s = "3" -> 3
    [] OTHER -> NaN

\* ToNumber of the abstract equality comparison.
ToNumber(x) == IF x.t = "string" THEN StringToNumber(x.s) ELSE x.n

\* parseFloat(s) for the strings of the model.
ParseFloat(s) == IF s = "" THEN NaN ELSE StringToNumber(s)

\* a == b (abstract equality): same type, same value; otherwise both sides
\* are converted to numbers, and NaN equals nothing.
LooseEqMutant(a, b) == FALSE
LooseEq(a, b) ==
  IF a.t = b.t THEN a = b /\ ~(a.t = "number" /\ a.n = NaN)
  ELSE /\ ToNumber(a) # NaN /\ ToNumber(b) # NaN
       /\ ToNumber(a) = ToNumber(b)

\* a === b
StrictEq(a, b) == a = b

\* Boolean(x)
Truthy(x) ==
  CASE x.t = "number" -> x.n # 0
    [] x.t = "string" -> x.s # ""
    [] OTHER -> x.n = 1

\* x.toString() for a number
NumberToString(n) ==
  CASE n = 0 -> "0" [] n = 1 -> "1" [] n = 2 -> "2" [] n = 3 -> "3" [] OTHER -> "NaN"

\* x.toString().toLowerCase() (the strings of the model are lower case
\* except "A", which folds to "a").
ToLowerString(x) ==
  CASE x.t = "number" -> NumberToString(x.n)
    [] x.t = "boolean" -> (IF x.n = 1 THEN "true" ELSE "false")
    [] OTHER -> (IF x.s = "A" THEN "a" ELSE x.s)

\* Position of a string in code-unit order, for the strings that are compared.
StringRank(s) ==
  CASE s = "" -> 0 [] s = "0" -> 1 [] s = "1" -> 2 [] s = "2" -> 3
    [] s = "3" -> 4 [] s = "A" -> 5 [] s = "a" -> 6 [] s = "b" -> 7 [] OTHER -> 8

\* a > b (abstract relational comparison): two strings compare by code
\* units, anything else numerically, and NaN compares false.
JsGreater(a, b) ==
  IF a.t = "string" /\ b.t = "string" THEN StringRank(a.s) > StringRank(b.s)
  ELSE /\ ToNumber(a) # NaN /\ ToNumber(b) # NaN
       /\ ToNumber(a) > ToNumber(b)

\* The data an event carries: a value, and for 'data' events the property
\* name and the path of control names wrapped around it.
EvData(v) == [v |-> v, k |-> "", path |-> <<>>]
NoData == EvData(Str(""))

\* f with key k mapped to v (an object property assignment).
Put(f, k, v) == [x \in (DOMAIN f) \cup {k} |-> IF x = k THEN v ELSE f[x]]

\* f without key k (delete f[k]).
Del(f, k) == [x \in (DOMAIN f) \ {k} |-> f[x]]

\* Sequence q without its i-th element (splice(i, 1)).
RemoveAt(q, i) == [j \in 1..(Len(q) - 1) |-> IF j < i THEN q[j] ELSE q[j + 1]]

\* Sequence q with x inserted so that it becomes element i (splice(i, 0, x)).
InsertAt(q, i, x) ==
  [j \in 1..(Len(q) + 1) |-> IF j < i THEN q[j] ELSE IF j = i THEN x ELSE q[j - 1]]

\* The first index of q whose element satisfies P, or 0 (findIndex < 0).
FindIndex(q, P(_)) ==
  IF \E i \in DOMAIN q : P(q[i])
  THEN CHOOSE i \in DOMAIN q : P(q[i]) /\ \A j \in 1..(i - 1) : ~P(q[j])
  ELSE 0

(***************************************************************************)
(*                     CONTROLS AND THE EVENT DISPATCHER                   *)
(***************************************************************************)

\* The reactive properties every control has (ui constructor), and the two
\* the control classes of the model declare (rank, label).
PropNames == {"name", "controlType", "parentElement", "hideData", "cssText",
              "cssClass", "visible", "visibleDisplayCss", "hiddenDisplayCss",
              "orderBy", "orderAsc", "rank", "label"}

\* The fields as the constructors leave them.
Defaults(type) ==
  [k \in PropNames |->
     CASE k = "name" -> Str("controlName")
       [] k = "controlType" -> Str(type)
       [] k = "parentElement" -> Str("_controlsDiv")
       [] k = "hideData" -> Bool(FALSE)
       [] k = "visible" -> Bool(TRUE)
       [] k = "visibleDisplayCss" -> Str("inherit")
       [] k = "hiddenDisplayCss" -> Str("none")
       [] k = "orderAsc" -> Bool(TRUE)
       [] k = "rank" -> Num(0)
       [] OTHER -> Str("")]

\* A function object: an application callback ("obs"), or one of the
\* closures the engine registers.  c, ev and f are what the closure captured.
Fn(id, kind, c, ev, f) == [id |-> id, kind |-> kind, c |-> c, ev |-> ev, f |-> f]

\* An empty map (an object without keys).
EmptyMap == [x \in {} |-> 0]

\* new ui(): the instance before the engine has touched it.
NewControl(type) ==
  [key |-> "", rootName |-> "", type |-> type, parent |-> 0, top |-> 0,
   reactive |-> FALSE,
   props |-> Defaults(type), controls |-> EmptyMap, refs |-> EmptyMap,
   queue |-> <<>>, driver |-> 0, htmlControlQueue |-> <<>>, htmlElementQueue |-> <<>>,
   init |-> FALSE, events |-> EmptyMap, bypassNotify |-> FALSE,
   sorted |-> <<>>, sortVal |-> Str(""), sortCallback |-> 0, orderByPrev |-> Str(""),
   filterFunction |-> "", filterMonitor |-> <<>>, filterCallbacks |-> <<>>,
   display |-> "none", hasDivs |-> FALSE,
   dom |-> [el \in {"_controlsDiv", "_mainDiv"} |-> <<>>],
   observer |-> [state |-> "none", p |-> 0, el |-> ""], polling |-> FALSE,
   elementPollCounter |-> 0, pollElement |-> "",
   elementAttributeQueue |-> <<>>, elements |-> <<>>,
   removed |-> 0]

\* The world the synchronous code of one task works on.
World == [ctl |-> ctl, timers |-> timers, fnc |-> fnc, log |-> <<>>, err |-> "",
          S |-> ResolverState]

SetWorld(W) ==
  /\ ctl' = W.ctl
  /\ timers' = W.timers
  /\ fnc' = W.fnc
  /\ log' = W.log
  /\ err' = W.err
  /\ SetResolver(W.S)

\* throw: the rest of the task is skipped (every operation below leaves a
\* world with an error as it is).
Throw(W, e) == [W EXCEPT !.err = e]

\* DispatcherEvent.unregisterCallback: the first entry holding the function.
UnregisterCallback(cbs, fid) ==
  LET i == FindIndex(cbs, LAMBDA x : x.fn.id = fid)
  IN IF i > 0 THEN RemoveAt(cbs, i) ELSE cbs

\* Dispatcher.on / Dispatcher.once: registerCallback on the event's
\* DispatcherEvent, created (with a fresh identity) when the name has none.
DispatcherOn(W, c, ev, fn, once) ==
  IF W.err # "" THEN W
  ELSE IF ev \in DOMAIN W.ctl[c].events
       THEN [W EXCEPT !.ctl[c].events[ev].cbs = Append(@, [fn |-> fn, once |-> once])]
       ELSE [W EXCEPT !.ctl[c].events =
                         Put(@, ev, [eid |-> W.fnc + 1,
                                     cbs |-> <<[fn |-> fn, once |-> once]>>]),
                      !.fnc = @ + 1]

\* Dispatcher.off: this.events[eventName] is dereferenced unchecked.
DispatcherOff(W, c, ev, fid) ==
  IF W.err # "" THEN W
  ELSE IF ev \notin DOMAIN W.ctl[c].events
       THEN Throw(W, "TypeError")
       ELSE LET cbs == UnregisterCallback(W.ctl[c].events[ev].cbs, fid)
            IN IF Len(cbs) = 0
               THEN [W EXCEPT !.ctl[c].events = Del(@, ev)]
               ELSE [W EXCEPT !.ctl[c].events[ev].cbs = cbs]

\* Dispatcher.clearEvents: unregisterAll on every DispatcherEvent.
ClearEvents(W, c) ==
  IF W.err # "" THEN W
  ELSE [W EXCEPT !.ctl[c].events = [e \in DOMAIN @ |-> [@[e] EXCEPT !.cbs = <<>>]]]

\* options.caller.on('remove', () => { this.off(eventName, listener) }): the
\* closure the caller option of ui.on / ui.once registers on the caller.
OnCallerRemove(W, c, ev, fid, caller) ==
  IF W.err # "" \/ caller = 0 THEN W
  ELSE DispatcherOn([W EXCEPT !.fnc = @ + 1], caller, "remove",
                    Fn(W.fnc + 1, "autoOff", c, ev, fid), FALSE)

\* ui.on / ui.once with options {caller} (caller = 0: no options)
UiOn(W, c, ev, fn, once, caller) ==
  OnCallerRemove(DispatcherOn(W, c, ev, fn, once), c, ev, fn.id, caller)

\* control.on(ev, <new function>, options): the function object is created,
\* then registered.  kind, fc, fev and ff are what the function is and what
\* it captured.
UiOnNew(W, c, ev, kind, fc, fev, ff, caller) ==
  IF W.err # "" THEN W
  ELSE UiOn([W EXCEPT !.fnc = @ + 1], c, ev, Fn(W.fnc + 1, kind, fc, fev, ff), FALSE, caller)

RECURSIVE FireFrom(_, _, _, _, _, _, _)
RECURSIVE Emit(_, _, _, _, _)
RECURSIVE InvokeCallback(_, _, _, _, _)

\* DispatcherEvent.fire: the callbacks of a snapshot are invoked in order;
\* afterwards the once-entries of the snapshot are unregistered from the
\* DispatcherEvent that was fired (eid), if the control still holds it.
FireFrom(W, c, ev, eid, snap, i, data) ==
  IF W.err # "" THEN W
  ELSE IF i <= Len(snap)
       THEN FireFrom(InvokeCallback(W, snap[i].fn, c, ev, data), c, ev, eid, snap, i + 1, data)
       ELSE IF ev \in DOMAIN W.ctl[c].events /\ W.ctl[c].events[ev].eid = eid
            THEN LET RECURSIVE Unreg(_, _)
                     Unreg(cbs, j) ==
                       IF j > Len(snap) THEN cbs
                       ELSE Unreg(IF snap[j].once
                                  THEN UnregisterCallback(cbs, snap[j].fn.id)
                                  ELSE cbs, j + 1)
                 IN [W EXCEPT !.ctl[c].events[ev].cbs = Unreg(@, 1)]
            ELSE W

\* Dispatcher.emit: the dispatch is logged, with or without listeners.
Fire(W, c, ev, data) ==
  IF W.err # "" THEN W
  ELSE LET V == [W EXCEPT !.log = Append(@, [kind |-> "emit", c |-> c, ev |-> ev,
                                             data |-> data, fn |-> 0])]
       IN IF ev \notin DOMAIN V.ctl[c].events THEN V
          ELSE FireFrom(V, c, ev, V.ctl[c].events[ev].eid, V.ctl[c].events[ev].cbs, 1, data)

\* ui.emit, parent control emit: if (scope == 'bubble' && this._parent)
EmitParent(W, c, ev, data, scope) ==
  IF W.err # "" \/ scope # "bubble" \/ W.ctl[c].parent = 0 THEN W
  ELSE Emit(W, W.ctl[c].parent, ev, data, scope)

\* ui.emit, top level control emit: this._topLevelParent is undefined on
\* the top-level control itself.
EmitTop(W, c, ev, data, scope) ==
  IF W.err # "" \/ scope \notin {"top", "local_top"} THEN W
  ELSE IF W.ctl[c].top = 0 THEN Throw(W, "TypeError")
       ELSE Fire(W, W.ctl[c].top, ev, data)

\* ui.emit(eventName, data, scope)
EmitMutant(W, c, ev, data, scope) == Fire(W, c, ev, data)
Emit(W, c, ev, data, scope) ==
  EmitTop(EmitParent(IF scope \in {"local", "local_top", "bubble"}
                     THEN Fire(W, c, ev, data) ELSE W,
                     c, ev, data, scope),
          c, ev, data, scope)

(***************************************************************************)
(*                    PROPERTIES, Set, Get, RemoveChild                    *)
(***************************************************************************)

\* String(x), as used for an object key.
JsToString(x) ==
  CASE x.t = "number" -> NumberToString(x.n)
    [] x.t = "boolean" -> (IF x.n = 1 THEN "true" ELSE "false")
    [] OTHER -> x.s

\* The keys children are created under.
ChildKeys == {"a", "b", "c"}

\* The order in which Object.keys enumerates the payloads of the model:
\* properties, then children, then the remove command.
PropOrder == <<"name", "controlType", "parentElement", "hideData", "cssText",
               "cssClass", "visible", "visibleDisplayCss", "hiddenDisplayCss",
               "orderBy", "orderAsc", "rank", "label">>
KidOrder == <<"a", "b", "c">>

\* A payload (the data object handed to Set): controlType ("" when the key is
\* absent), property values, child payloads and the remove command.
Payload(type, props, kids, remove) ==
  [controlType |-> type, props |-> props, kids |-> kids, remove |-> remove]

RECURSIVE NotifyMutant(_, _, _)
NotifyMutant(W, c, data) ==
  IF W.err # "" THEN W
  ELSE Emit(IF W.ctl[c].parent # 0
            THEN NotifyMutant(W, W.ctl[c].parent,
                              [data EXCEPT !.path = <<W.ctl[c].props["name"]>> \o @])
            ELSE W,
            c, "data", data, "local")

RECURSIVE Notify(_, _, _)
\* ui._notify: the parent is notified first (unless hideData), with the data
\* wrapped in this control's name; then 'data' is emitted on this control.
Notify(W, c, data) ==
  IF W.err # "" THEN W
  ELSE LET me == W.ctl[c]
           W1 == IF me.parent # 0 /\ ~Truthy(me.props["hideData"])
                 THEN Notify(W, me.parent,
                             [data EXCEPT !.path = <<me.props["name"]>> \o @])
                 ELSE W
       IN Emit(W1, c, "data", data, "local")

\* ui.NotifyProperty(k) for one property name
NotifyPropertyMutant(W, c, k) ==
  Emit(W, c, "data", [v |-> W.ctl[c].props[k], k |-> k, path |-> <<>>], "local")
NotifyProperty(W, c, k) ==
  Notify(W, c, [v |-> W.ctl[c].props[k], k |-> k, path |-> <<>>])

\* control[k] = val: the setter _createControl defines on a reactive
\* property; the top level container has plain fields.
AssignMutant(W, c, k, val) == W
Assign(W, c, k, val) ==
  IF W.err # "" THEN W
  ELSE IF ~W.ctl[c].reactive
       THEN [W EXCEPT !.ctl[c].props[k] = val]
       ELSE IF ~LooseEq(W.ctl[c].props[k], val)
            THEN LET W1 == [W EXCEPT !.ctl[c].props[k] = val]
                     W2 == IF ~W1.ctl[c].bypassNotify
                           THEN NotifyProperty(W1, c, k)
                           ELSE [W1 EXCEPT !.ctl[c].bypassNotify = FALSE]
                 IN Emit(W2, c, k, EvData(val), "local")
            ELSE [W EXCEPT !.ctl[c].bypassNotify = FALSE]

RECURSIVE Set(_, _, _)
RECURSIVE SetProps(_, _, _, _)
RECURSIVE SetKids(_, _, _, _)
RECURSIVE RemoveChild(_, _, _)

\* Set, the property keys of the payload
SetProps(W, c, p, i) ==
  IF W.err # "" \/ i > Len(PropOrder) THEN W
  ELSE LET k == PropOrder[i]
       IN IF k \in DOMAIN p.props /\ k # "controlType" /\ k \in DOMAIN W.ctl[c].props
          THEN SetProps(Assign([W EXCEPT !.ctl[c].bypassNotify = TRUE], c, k, p.props[k]),
                        c, p, i + 1)
          ELSE SetProps(W, c, p, i + 1)

RECURSIVE SetKidsMutant(_, _, _, _)
SetKidsMutant(W, c, p, i) ==
  IF W.err # "" \/ i > Len(KidOrder) THEN W
  ELSE LET k == KidOrder[i]
       IN IF k \notin DOMAIN p.kids THEN SetKidsMutant(W, c, p, i + 1)
          ELSE IF k \in DOMAIN W.ctl[c].controls
               THEN SetKidsMutant(Set(W, W.ctl[c].controls[k], p.kids[k]), c, p, i + 1)
               ELSE SetKidsMutant([W EXCEPT !.timers =
                                     Append(@, [c |-> c, name |-> k, data |-> p.kids[k]])],
                                  c, p, i + 1)

\* Set, the child keys of the payload: an existing child is updated, a
\* missing one with a controlType is created by a 1 ms timer.
SetKids(W, c, p, i) ==
  IF W.err # "" \/ i > Len(KidOrder) THEN W
  ELSE LET k == KidOrder[i]
       IN IF k \notin DOMAIN p.kids THEN SetKids(W, c, p, i + 1)
          ELSE IF k \in DOMAIN W.ctl[c].controls
               THEN SetKids(Set(W, W.ctl[c].controls[k], p.kids[k]), c, p, i + 1)
               ELSE IF p.kids[k].controlType # ""
                    THEN SetKids([W EXCEPT !.timers =
                                     Append(@, [c |-> c, name |-> k, data |-> p.kids[k]])],
                                 c, p, i + 1)
                    ELSE SetKids(W, c, p, i + 1)

\* Set, the remove key: this._parent.RemoveChild(this.name)
SetRemove(W, c, p) ==
  IF W.err # "" \/ ~p.remove THEN W
  ELSE IF W.ctl[c].parent = 0
       THEN Throw(W, "TypeError")     \* this._parent is undefined
       ELSE RemoveChild(W, W.ctl[c].parent, JsToString(W.ctl[c].props["name"]))

\* ui.Set(data)
Set(W, c, p) == SetRemove(SetKids(SetProps(W, c, p, 1), c, p, 1), c, p)

RECURSIVE Get(_, _, _)
\* ui.Get(options): the entries of _properties (all of them, or those not
\* loosely equal to ''), and Get of every child whose hideData is falsy.
Get(cs, c, sparse) ==
  [props |-> IF cs[c].reactive
             THEN [k \in {x \in DOMAIN cs[c].props :
                            ~sparse \/ ~LooseEq(cs[c].props[x], Str(""))}
                     |-> cs[c].props[k]]
             ELSE EmptyMap,
   kids |-> [k \in {x \in DOMAIN cs[c].controls :
                      ~Truthy(cs[cs[c].controls[x]].props["hideData"])}
               |-> Get(cs, cs[c].controls[k], sparse)]]

(***************************************************************************)
(*                      ELEMENTS, SORTING, FILTERING                       *)
(***************************************************************************)

\* The elements of a control that can hold child controls once Init() has
\* found them in the document.
Containers == {"_controlsDiv", "_mainDiv"}

RECURSIVE AscSeq(_)
\* The numbers of a set in ascending order.
AscSeq(s) ==
  IF s = {} THEN <<>>
  ELSE LET m == CHOOSE x \in s : \A y \in s : x <= y
       IN <<m>> \o AscSeq(s \ {m})

\* Object.values(this._controls): the children in the order their keys were
\* added, which is the order the instances were created in.
ChildSeq(cs, c) == AscSeq({cs[c].controls[k] : k \in DOMAIN cs[c].controls})

\* The control whose element holds the element of control e, or 0.
Host(cs, e) ==
  IF \E p \in DOMAIN cs : \E el \in Containers :
        \E i \in DOMAIN cs[p].dom[el] : cs[p].dom[el][i] = e
  THEN CHOOSE p \in DOMAIN cs : \E el \in Containers :
         \E i \in DOMAIN cs[p].dom[el] : cs[p].dom[el][i] = e
  ELSE 0

RECURSIVE InDocument(_, _)
\* document.getElementById finds the elements of the control.
InDocument(cs, c) ==
  \/ ~cs[c].reactive
  \/ Host(cs, c) # 0 /\ InDocument(cs, Host(cs, c))

\* A MutationObserver that observes the children of container el of control
\* p, and has not been disconnected, is notified of a change of them.
Mutated(cs, p, el) ==
  [c \in DOMAIN cs |->
     IF cs[c].observer = [state |-> "armed", p |-> p, el |-> el]
     THEN [cs[c] EXCEPT !.observer.state = "fired"] ELSE cs[c]]

\* The container that holds the element of control e, or "".
HostElement(cs, e) ==
  IF Host(cs, e) = 0 THEN ""
  ELSE CHOOSE el \in Containers :
         \E i \in DOMAIN cs[Host(cs, e)].dom[el] : cs[Host(cs, e)].dom[el][i] = e

\* element.remove(): the element leaves the container that holds it.
DetachElement(cs, e) ==
  IF Host(cs, e) = 0 THEN cs
  ELSE Mutated([cs EXCEPT ![Host(cs, e)].dom[HostElement(cs, e)] =
                            SelectSeq(@, LAMBDA x : x # e)],
               Host(cs, e), HostElement(cs, e))

\* parent[el].appendChild(control._element)
AppendChild(W, p, el, e) ==
  IF W.err # "" THEN W
  ELSE IF el \notin Containers \/ ~W.ctl[p].hasDivs
       THEN Throw(W, "TypeError")
       ELSE LET cs == DetachElement(W.ctl, e)
            IN [W EXCEPT !.ctl = Mutated([cs EXCEPT ![p].dom[el] = Append(@, e)], p, el)]

\* parent[el].insertBefore(control._element, next._element)
InsertBefore(W, p, el, e, next) ==
  IF W.err # "" THEN W
  ELSE IF el \notin Containers \/ ~W.ctl[p].hasDivs
       THEN Throw(W, "TypeError")
       ELSE IF ~\E i \in DOMAIN W.ctl[p].dom[el] : W.ctl[p].dom[el][i] = next
            THEN Throw(W, "NotFoundError")
            ELSE LET cs == DetachElement(W.ctl, e)
                     i == FindIndex(cs[p].dom[el], LAMBDA x : x = next)
                 IN [W EXCEPT !.ctl = Mutated([cs EXCEPT ![p].dom[el] = InsertAt(@, i, e)],
                                              p, el)]

\* ui._show / ui._hide
Show(W, c) ==
  IF W.err # "" THEN W
  ELSE [W EXCEPT !.ctl[c].display = JsToString(W.ctl[c].props["visibleDisplayCss"])]
Hide(W, c) ==
  IF W.err # "" THEN W
  ELSE [W EXCEPT !.ctl[c].display = JsToString(W.ctl[c].props["hiddenDisplayCss"])]

\* control[k] != undefined for a property name k
HasProp(cs, c, k) == k \in DOMAIN cs[c].props

\* The _sortVal computed from a value: a number as it is, anything else as
\* its lower-case string.
SortValOf(x) == IF x.t = "number" THEN x ELSE Str(ToLowerString(x))

\* Index (from 1) at which a control with sort value v enters _sorted:
\* before the first entry greater (ascending) or smaller (descending) than
\* it, or at the end.
InsertIndex(cs, p, v) ==
  LET i == IF Truthy(cs[p].props["orderAsc"])
           THEN FindIndex(cs[p].sorted, LAMBDA t : JsGreater(cs[t].sortVal, v))
           ELSE FindIndex(cs[p].sorted, LAMBDA t : JsGreater(v, cs[t].sortVal))
  IN IF i = 0 THEN Len(cs[p].sorted) + 1 ELSE i

\* control.__sortCallback = function () { this._orderSingle(control) }
\* .bind(parent); control.on(orderBy, control.__sortCallback, {caller: parent})
SubscribeSort(W, p, c) ==
  IF W.err # "" THEN W
  ELSE LET id == W.fnc + 1
           W1 == [W EXCEPT !.fnc = id, !.ctl[c].sortCallback = id]
       IN UiOn(W1, c, JsToString(W.ctl[p].props["orderBy"]),
               Fn(id, "sort", p, "", c), FALSE, p)

\* control.off(this._orderByPrev, control.__sortCallback)
UnsubscribeSort(W, p, c) ==
  IF W.err # "" \/ W.ctl[c].sortCallback = 0 THEN W
  ELSE DispatcherOff(W, c, JsToString(W.ctl[p].orderByPrev), W.ctl[c].sortCallback)

RECURSIVE StableInsert(_, _, _, _)
\* Array.prototype.sort with the comparator of _order (a stable sort): x is
\* placed behind the last element it does not have to precede.
StableInsert(cs, q, x, asc) ==
  LET Before(a, b) == IF asc THEN JsGreater(cs[b].sortVal, cs[a].sortVal)
                      ELSE JsGreater(cs[a].sortVal, cs[b].sortVal)
  IN IF q = <<>> THEN <<x>>
     ELSE IF Before(x, q[Len(q)])
          THEN Append(StableInsert(cs, SubSeq(q, 1, Len(q) - 1), x, asc), q[Len(q)])
          ELSE Append(q, x)

RECURSIVE SortControls(_, _, _)
SortControls(cs, q, asc) ==
  IF q = <<>> THEN <<>>
  ELSE StableInsert(cs, SortControls(cs, SubSeq(q, 1, Len(q) - 1), asc), q[Len(q)], asc)

RECURSIVE Resubscribe(_, _, _, _)
\* _order, first loop: every control of _sorted gets a new sort callback
Resubscribe(W, p, q, i) ==
  IF W.err # "" \/ i > Len(q) THEN W
  ELSE Resubscribe(SubscribeSort(UnsubscribeSort(W, p, q[i]), p, q[i]), p, q, i + 1)

\* delete control.__sortCallback
DeleteSortCallback(W, c) ==
  IF W.err # "" THEN W ELSE [W EXCEPT !.ctl[c].sortCallback = 0]

RECURSIVE Unsubscribe(_, _, _, _)
\* _order without an order key: the sort callbacks are dropped
Unsubscribe(W, p, q, i) ==
  IF W.err # "" \/ i > Len(q) THEN W
  ELSE Unsubscribe(DeleteSortCallback(UnsubscribeSort(W, p, q[i]), q[i]), p, q, i + 1)

RECURSIVE ApplyOrder(_, _, _)
\* _order, last loop: for (i = length - 2; i >= 0; i--) insertBefore
ApplyOrder(W, p, i) ==
  IF W.err # "" \/ i < 1 THEN W
  ELSE ApplyOrder(InsertBefore(W, p, "_controlsDiv", W.ctl[p].sorted[i],
                               W.ctl[p].sorted[i + 1]), p, i - 1)

\* _order: c._sortVal = c[this.orderBy] (or its lower-case string) for the
\* sortable children q
SetSortVals(cs, q, key) ==
  [t \in DOMAIN cs |->
     IF \E i \in DOMAIN q : q[i] = t
     THEN [cs[t] EXCEPT !.sortVal = SortValOf(cs[t].props[key])]
     ELSE cs[t]]

\* _order: the sortable children are the initialised children that have the
\* order property, in the order of Object.values(this._controls)
SortableChildren(cs, p) ==
  SelectSeq(ChildSeq(cs, p),
            LAMBDA t : cs[t].init /\ HasProp(cs, t, JsToString(cs[p].props["orderBy"])))

\* _order: this._sorted = sortable.sort(...)
SortChildren(W, p) ==
  IF W.err # "" THEN W
  ELSE LET q == SortableChildren(W.ctl, p)
           cs == SetSortVals(W.ctl, q, JsToString(W.ctl[p].props["orderBy"]))
       IN [W EXCEPT !.ctl = [cs EXCEPT ![p].sorted =
                               SortControls(cs, q, Truthy(cs[p].props["orderAsc"]))]]

\* _order: the elements are put into the order of _sorted, last one first
PlaceSorted(W, p) ==
  IF W.err # "" \/ W.ctl[p].sorted = <<>> THEN W
  ELSE ApplyOrder(AppendChild(W, p, "_controlsDiv", W.ctl[p].sorted[Len(W.ctl[p].sorted)]),
                  p, Len(W.ctl[p].sorted) - 1)

\* _order, else branch: this._sorted = []
ClearSorted(W, p) == IF W.err # "" THEN W ELSE [W EXCEPT !.ctl[p].sorted = <<>>]

\* _order, last statement: this._orderByPrev = this.orderBy
SetOrderByPrev(W, p) ==
  IF W.err # "" THEN W ELSE [W EXCEPT !.ctl[p].orderByPrev = W.ctl[p].props["orderBy"]]

\* ui._order, with this = p
OrderMutant(W, p) == W
Order(W, p) ==
  IF W.err # "" THEN W
  ELSE IF Truthy(W.ctl[p].props["orderBy"])
       THEN SetOrderByPrev(
              PlaceSorted(SortChildren(Resubscribe(W, p, W.ctl[p].sorted, 1), p), p), p)
       ELSE SetOrderByPrev(ClearSorted(Unsubscribe(W, p, W.ctl[p].sorted, 1), p), p)

\* _orderSingle: _sorted without the first entry that has the control's name
SortedWithout(cs, p, c) ==
  LET ri == FindIndex(cs[p].sorted,
              LAMBDA t : LooseEq(cs[t].props["name"], cs[c].props["name"]))
  IN IF ri > 0 THEN RemoveAt(cs[p].sorted, ri) ELSE cs[p].sorted

\* _orderSingle: the index (from 1) at which the control enters _sorted again
ReinsertIndex(cs, p, c) ==
  InsertIndex([cs EXCEPT ![p].sorted = SortedWithout(cs, p, c)], p, cs[c].sortVal)

\* _orderSingle: the element is moved in front of the element of the control
\* that follows it in _sorted, or to the end (insertIndex >= length - 1)
PlaceSingle(W, p, c, ii) ==
  IF ii >= Len(W.ctl[p].sorted)
  THEN AppendChild(W, p, "_controlsDiv", c)
  ELSE InsertBefore(W, p, "_controlsDiv", c, W.ctl[p].sorted[ii + 1])

\* ui._orderSingle(control), with this = p
OrderSingle(W, p, c) ==
  IF W.err # "" THEN W
  ELSE IF ~HasProp(W.ctl, c, JsToString(W.ctl[p].props["orderBy"]))
       THEN Throw(W, "TypeError")     \* undefined.toString()
       ELSE LET cs == [W.ctl EXCEPT ![c].sortVal =
                         SortValOf(W.ctl[c].props[JsToString(W.ctl[p].props["orderBy"])])]
            IN PlaceSingle([W EXCEPT !.ctl = [cs EXCEPT ![p].sorted =
                                                InsertAt(SortedWithout(cs, p, c),
                                                         ReinsertIndex(cs, p, c), c)]],
                           p, c, ReinsertIndex(cs, p, c))

(***************************************************************************)
(*                     BINDING OF ELEMENTS TO PROPERTIES                   *)
(***************************************************************************)

\* __bindingMap[e][a], with the fall back to _default of _bind: whether the
\* pair is supported, its change event ("" when it has none) and whether
\* the attribute is set from JavaScript only.
BindingMap(e, a) ==
  CASE e = "input" /\ a = "value" -> [known |-> TRUE, event |-> "change", jsOnly |-> FALSE]
    [] e = "select" /\ a = "value" -> [known |-> TRUE, event |-> "change", jsOnly |-> TRUE]
    [] a \in {"textContent", "title"} -> [known |-> TRUE, event |-> "", jsOnly |-> FALSE]
    [] a \in {"hidden", "disabled"} -> [known |-> TRUE, event |-> "", jsOnly |-> TRUE]
    [] OTHER -> [known |-> FALSE, event |-> "", jsOnly |-> FALSE]

\* The elements with identifier tags in the html of a class.  Field:
\*   <label>@{label}</label> <input type="text" value="@{label}"/>
\*   <select value="@{label}">...</select>
\* The other classes of the model have no tags.
Template(type) ==
  IF type = "Field"
  THEN <<[elementType |-> "label", attribute |-> "textContent", property |-> "label"],
         [elementType |-> "input", attribute |-> "value", property |-> "label"],
         [elementType |-> "select", attribute |-> "value", property |-> "label"]>>
  ELSE <<>>

\* element[attribute] = val: the element holds the string of the value.
Written(val) == Str(JsToString(val))

\* _addHtml: _parseHtml(control) and the push of its elementData.  A tag of
\* an attribute that is not jsOnly is replaced by the value of the property;
\* a jsOnly attribute is taken out of the html.
ParseHtml(W, c) ==
  IF W.err # "" THEN W
  ELSE [W EXCEPT !.ctl[c].elementAttributeQueue =
          @ \o [i \in DOMAIN Template(W.ctl[c].type) |->
                  LET t == Template(W.ctl[c].type)[i]
                  IN [elementType |-> t.elementType, attribute |-> t.attribute,
                      property |-> t.property,
                      val |-> IF BindingMap(t.elementType, t.attribute).jsOnly
                              THEN Str("")
                              ELSE Written(W.ctl[c].props[t.property])]]]

\* The callback __bind subscribes to the property: the attribute is written
\* unless the change comes from the element's own listener (block1).
BindWriteMutant(W, c, i, val) ==
  [W EXCEPT !.ctl[c].elements[i].val = Written(val),
            !.log = Append(@, [kind |-> "attr", c |-> c,
                               ev |-> W.ctl[c].elements[i].elementType,
                               data |-> EvData(val), fn |-> 0])]
BindWrite(W, c, i, val) ==
  IF W.ctl[c].elements[i].block1 THEN W
  ELSE IF ~W.ctl[c].elements[i].found
       THEN Throw(W, "TypeError")          \* element is null
       ELSE [W EXCEPT !.ctl[c].elements[i].val = Written(val),
                      !.log = Append(@, [kind |-> "attr", c |-> c,
                                         ev |-> W.ctl[c].elements[i].elementType,
                                         data |-> EvData(val), fn |-> 0])]

\* _bind and __bind for one entry of _elementAttributeQueue: the element
\* reference is null when the element is not in the document.
Bind(W, c, e) ==
  IF W.err # "" \/ ~BindingMap(e.elementType, e.attribute).known THEN W
  ELSE LET m == BindingMap(e.elementType, e.attribute)
           found == InDocument(W.ctl, c)
           i == Len(W.ctl[c].elements) + 1
       IN IF m.jsOnly /\ ~found THEN Throw(W, "TypeError")
          ELSE UiOnNew([W EXCEPT !.ctl[c].elements =
                          Append(@, [elementType |-> e.elementType,
                                     attribute |-> e.attribute,
                                     property |-> e.property,
                                     val |-> IF m.jsOnly
                                             THEN Written(W.ctl[c].props[e.property])
                                             ELSE e.val,
                                     found |-> found,
                                     event |-> IF found THEN m.event ELSE "",
                                     block1 |-> FALSE])],
                       c, e.property, "bind", c, "", i, 0)

RECURSIVE BindAll(_, _)
\* _createDataBindings: the attribute queue is emptied entry by entry.
BindAll(W, c) ==
  IF W.err # "" \/ W.ctl[c].elementAttributeQueue = <<>> THEN W
  ELSE BindAll(Bind([W EXCEPT !.ctl[c].elementAttributeQueue = Tail(@)],
                    c, Head(W.ctl[c].elementAttributeQueue)), c)

CreateDataBindings(W, c) == BindAll(W, c)

\* The value the listener of the element's event reads back, by the type
\* the property has at that time: toString(), parseFloat, or === 'true'.
ReadBack(cur, text) ==
  CASE cur.t = "string" -> Str(text)
    [] cur.t = "number" -> Num(ParseFloat(text))
    [] OTHER -> Bool(text = "true")

\* The listener __bind adds to the element for its change event, run after
\* the user has given element i of control c the content text: the value
\* read back is assigned to the property, with block1 set meanwhile.
ElementChange(W, c, i, text) ==
  LET prop == W.ctl[c].elements[i].property
      v == ReadBack(W.ctl[c].props[prop], text)
      W1 == Assign([W EXCEPT !.ctl[c].elements[i].val = Str(text),
                             !.ctl[c].elements[i].block1 = TRUE,
                             !.log = Append(@, [kind |-> "write", c |-> c, ev |-> prop,
                                                data |-> EvData(v), fn |-> 0])],
                   c, prop, v)
  IN IF W1.err # "" THEN W1 ELSE [W1 EXCEPT !.ctl[c].elements[i].block1 = FALSE]

\* The filter functions the application passes to filter():
\*   rankPos: t => t.rank > 0        rankBig: t => t.rank > 1
FilterFunctions == {"rankPos", "rankBig"}

\* filterFunction(control)
FilterHolds(f, cs, c) ==
  /\ HasProp(cs, c, "rank")
  /\ JsGreater(cs[c].props["rank"], Num(IF f = "rankBig" THEN 1 ELSE 0))

\* The value of a sequence of <<key, value>> pairs at a key, or 0.
Lookup(q, k) ==
  LET i == FindIndex(q, LAMBDA e : e[1] = k) IN IF i = 0 THEN 0 ELSE q[i][2]
HasPair(q, k) == FindIndex(q, LAMBDA e : e[1] = k) # 0

\* obj[k] = v and delete obj[k] on an object kept in key-insertion order
PutPair(q, k, v) ==
  LET i == FindIndex(q, LAMBDA e : e[1] = k)
  IN IF i = 0 THEN Append(q, <<k, v>>) ELSE [q EXCEPT ![i] = <<k, v>>]
DelPair(q, k) == SelectSeq(q, LAMBDA e : e[1] # k)

\* control._filterCallbacks[prop] = control.on(prop, () => { if
\* (filterFunction && filterFunction(control)) show else hide }, {caller: p}):
\* the closure of _filter keeps the function it was created with.
SubscribeFilter(W, p, c, prop, f) ==
  IF W.err # "" THEN W
  ELSE LET id == W.fnc + 1
           W1 == [W EXCEPT !.fnc = id,
                           !.ctl[c].filterCallbacks = PutPair(@, prop, id)]
       IN UiOn(W1, c, prop, Fn(id, "filter", c, f, 0), FALSE, p)

\* The same subscription made by _htmlInit: its closure reads
\* parentControl._filterFunction when it is called.
SubscribeFilterLive(W, p, c, prop) ==
  IF W.err # "" THEN W
  ELSE LET id == W.fnc + 1
           W1 == [W EXCEPT !.fnc = id,
                           !.ctl[c].filterCallbacks = PutPair(@, prop, id)]
       IN UiOn(W1, c, prop, Fn(id, "filterLive", c, "", p), FALSE, p)

\* control.off(prop, control._filterCallbacks[prop]); delete ...
UnsubscribeFilter(W, c, prop) ==
  IF W.err # "" \/ Lookup(W.ctl[c].filterCallbacks, prop) = 0 THEN W
  ELSE LET W1 == DispatcherOff(W, c, prop, Lookup(W.ctl[c].filterCallbacks, prop))
       IN IF W1.err # "" THEN W1
          ELSE [W1 EXCEPT !.ctl[c].filterCallbacks = DelPair(@, prop)]

RECURSIVE SubscribeChildren(_, _, _, _, _, _)
\* Object.values(this._controls).forEach(control => control.on(prop, ...))
SubscribeChildren(W, p, q, i, prop, f) ==
  IF W.err # "" \/ i > Len(q) THEN W
  ELSE SubscribeChildren(SubscribeFilter(W, p, q[i], prop, f), p, q, i + 1, prop, f)

RECURSIVE UnsubscribeChildren(_, _, _, _)
\* Object.values(this._controls).forEach(control => control.off(prop, ...))
UnsubscribeChildren(W, q, i, prop) ==
  IF W.err # "" \/ i > Len(q) THEN W
  ELSE UnsubscribeChildren(UnsubscribeFilter(W, q[i], prop), q, i + 1, prop)

RECURSIVE AddMonitors(_, _, _, _, _)
\* _filter: options.monitor.forEach, new names are subscribed on every child
AddMonitors(W, p, mon, i, f) ==
  IF W.err # "" \/ i > Len(mon) THEN W
  ELSE IF \E j \in DOMAIN W.ctl[p].filterMonitor : W.ctl[p].filterMonitor[j] = mon[i]
       THEN AddMonitors(W, p, mon, i + 1, f)
       ELSE AddMonitors(
              SubscribeChildren([W EXCEPT !.ctl[p].filterMonitor = Append(@, mon[i])],
                                p, ChildSeq(W.ctl, p), 1, mon[i], f),
              p, mon, i + 1, f)

RECURSIVE DropMonitors(_, _, _, _, _)
\* _filter: the monitored names (olds, as they were when the loop began) that
\* the new list lacks are unsubscribed on every child
DropMonitors(W, p, mon, olds, i) ==
  IF W.err # "" \/ i > Len(olds) THEN W
  ELSE IF \E j \in DOMAIN mon : mon[j] = olds[i]
       THEN DropMonitors(W, p, mon, olds, i + 1)
       ELSE DropMonitors(
              UnsubscribeChildren([W EXCEPT !.ctl[p].filterMonitor =
                                              SelectSeq(@, LAMBDA x : x # olds[i])],
                                  ChildSeq(W.ctl, p), 1, olds[i]),
              p, mon, olds, i + 1)

RECURSIVE DropAll(_, _, _)
\* _filter without a monitor list: every filter callback of every child is
\* removed
DropAll(W, q, i) ==
  IF W.err # "" \/ i > Len(q) THEN W
  ELSE IF W.ctl[q[i]].filterCallbacks = <<>> THEN DropAll(W, q, i + 1)
       ELSE DropAll(UnsubscribeFilter(W, q[i], W.ctl[q[i]].filterCallbacks[1][1]), q, i)

RECURSIVE ShowFiltered(_, _, _, _)
\* _filter, last loop: the visible children are shown or hidden
ShowFiltered(W, q, i, f) ==
  IF W.err # "" \/ i > Len(q) THEN W
  ELSE ShowFiltered(IF ~Truthy(W.ctl[q[i]].props["visible"]) THEN W
                    ELSE IF f = "" \/ FilterHolds(f, W.ctl, q[i])
                         THEN Show(W, q[i]) ELSE Hide(W, q[i]),
                    q, i + 1, f)

\* _filter, second loop
DropOldMonitors(W, p, mon) ==
  IF W.err # "" THEN W ELSE DropMonitors(W, p, mon, W.ctl[p].filterMonitor, 1)

\* _filter, last loop over the children as they are then
ShowChildren(W, p, f) ==
  IF W.err # "" THEN W ELSE ShowFiltered(W, ChildSeq(W.ctl, p), 1, f)

\* ui._filter(filterFunction, options); f = "" when no function is passed,
\* hasMonitor tells whether options.monitor is an array.
FilterApply(W, p, f, hasMonitor, mon) ==
  ShowChildren(IF hasMonitor
               THEN DropOldMonitors(AddMonitors(W, p, mon, 1, f), p, mon)
               ELSE DropAll([W EXCEPT !.ctl[p].filterMonitor = <<>>],
                            ChildSeq(W.ctl, p), 1),
               p, f)

\* ui.filter(filterFunction, options)
Filter(W, p, f, hasMonitor, mon) ==
  IF W.err # "" THEN W
  ELSE IF f # ""
       THEN FilterApply([W EXCEPT !.ctl[p].filterFunction = f], p, f, hasMonitor, mon)
       ELSE FilterApply([W EXCEPT !.ctl[p].filterFunction = ""], p, "", FALSE, <<>>)

\* The listener functions of an application that registers, unregisters and
\* emits from inside its callbacks; all of them work on event x of the
\* top-level control.  In source form:
\*   L1 = () => {}                          L2 = () => top.off('x', L1)
\*   L3 = () => top.on('x', L1)             L4 = () => top.once('x', L1)
\*   L5 = () => top.clearEvents()
\*   L6 = () => { top.off('x', L6); top.emit('x') }
NumListeners == 6
AppListener(i) ==
  CASE i = 1 -> Fn(1, "obs", 1, "x", 0)
    [] i = 2 -> Fn(2, "obsOff", 1, "x", 1)
    [] i = 3 -> Fn(3, "obsOn", 1, "x", 1)
    [] i = 4 -> Fn(4, "obsOnce", 1, "x", 1)
    [] i = 5 -> Fn(5, "obsClear", 1, "x", 0)
    [] OTHER -> Fn(6, "obsEmit", 1, "x", 6)

\* What a listener of the application that inspects a control sees:
\*   P = c => seen.push([c._element.parentNode != null,
\*                       c._parent._controls[c.name] === c])
\* recorded as an entry of the log: ev tells whether the display region of
\* the control is in a container, data whether the control is in its
\* parent's child map under its name.
Seen(W, fn) ==
  [W EXCEPT !.log = Append(@,
     [kind |-> "seen", c |-> fn.c,
      ev |-> IF Host(W.ctl, fn.c) # 0 THEN "attached" ELSE "detached",
      data |-> EvData(Bool(
                 /\ W.ctl[fn.c].parent # 0
                 /\ JsToString(W.ctl[fn.c].props["name"])
                      \in DOMAIN W.ctl[W.ctl[fn.c].parent].controls
                 /\ W.ctl[W.ctl[fn.c].parent].controls[
                       JsToString(W.ctl[fn.c].props["name"])] = fn.c)),
      fn |-> fn.id])]

\* A callback is called by DispatcherEvent.fire.
InvokeCallback(W, fn, c, ev, data) ==
  IF W.err # "" THEN W
  ELSE LET V == [W EXCEPT !.log = Append(@, [kind |-> fn.kind, c |-> c, ev |-> ev,
                                             data |-> data, fn |-> fn.id])]
       IN CASE fn.kind = "autoOff" -> DispatcherOff(V, fn.c, fn.ev, fn.f)
            [] fn.kind = "order" -> Order(V, fn.c)
            [] fn.kind = "sort" -> OrderSingle(V, fn.c, fn.f)
            [] fn.kind = "visible" ->
                 (IF Truthy(data.v) THEN Show(V, fn.c) ELSE Hide(V, fn.c))
            [] fn.kind \in {"cssText", "cssClass"} ->
                 Throw(V, "ReferenceError")      \* element is not defined
            [] fn.kind = "filter" ->
                 (IF fn.ev # "" /\ FilterHolds(fn.ev, V.ctl, fn.c)
                  THEN Show(V, fn.c) ELSE Hide(V, fn.c))
            [] fn.kind = "filterLive" ->
                 (IF V.ctl[fn.f].filterFunction # ""
                     /\ FilterHolds(V.ctl[fn.f].filterFunction, V.ctl, fn.c)
                  THEN Show(V, fn.c) ELSE Hide(V, fn.c))
            [] fn.kind = "obsOff" -> DispatcherOff(V, fn.c, fn.ev, fn.f)
            [] fn.kind = "obsOn" -> UiOn(V, fn.c, fn.ev, AppListener(fn.f), FALSE, 0)
            [] fn.kind = "obsOnce" -> UiOn(V, fn.c, fn.ev, AppListener(fn.f), TRUE, 0)
            [] fn.kind = "obsClear" -> ClearEvents(V, fn.c)
            [] fn.kind = "obsEmit" ->
                 Emit(DispatcherOff(V, fn.c, fn.ev, fn.id), fn.c, fn.ev, data, "local")
            [] fn.kind = "probe" -> Seen(V, fn)
            [] fn.kind = "bind" -> BindWrite(V, fn.c, fn.f, data.v)
            [] OTHER -> V

\* RemoveChild after the remove event: RemoveHtml, the deletes, the splice
\* of _sorted, clearEvents
Detach(W, p, name, c) ==
  IF W.err # "" THEN W
  ELSE LET cs == DetachElement(W.ctl, c)
           si == FindIndex(cs[p].sorted,
                   LAMBDA t : LooseEq(cs[t].props["name"], cs[c].props["name"]))
       IN ClearEvents([W EXCEPT !.ctl =
                         [cs EXCEPT ![p].controls = Del(@, name),
                                    ![p].refs = Del(@, name),
                                    ![p].sorted = IF si > 0 THEN RemoveAt(@, si) ELSE @,
                                    ![c].removed = W.fnc + 1]], c)

\* ui.RemoveChild(name), with this = p
RemoveChildMutant(W, p, name) ==
  IF name \notin DOMAIN W.ctl[p].controls THEN W
  ELSE Detach(W, p, name, W.ctl[p].controls[name])
RemoveChild(W, p, name) ==
  IF W.err # "" \/ name \notin DOMAIN W.ctl[p].controls THEN W
  ELSE Detach(Emit(W, W.ctl[p].controls[name], "remove",
                   [v |-> Num(W.ctl[p].controls[name]), k |-> "control", path |-> <<>>],
                   "local"),
              p, name, W.ctl[p].controls[name])

(***************************************************************************)
(*                 CHILD CREATION AND INSERTION INTO THE PAGE              *)
(***************************************************************************)

\* The top-level control a call of _loadScript on control c is passed to.
RootOf(cs, c) == IF cs[c].top = 0 THEN cs[c].rootName ELSE cs[cs[c].top].rootName

\* this._loadScript(className) called on control c
ControlLoadScript(W, c, name) ==
  [W EXCEPT !.S = LoadScriptCall(W.S, cls, RootOf(W.ctl, c), name, 0)]

\* _addHtml: observer.observe(parentControl[element], {childList: true})
Observe(W, p, el, c) ==
  IF el \notin Containers \/ ~W.ctl[p].hasDivs
  THEN Throw(W, "TypeError")               \* parentControl[element] is no node
  ELSE [W EXCEPT !.ctl[c].observer = [state |-> "armed", p |-> p, el |-> el]]

\* _addHtml: the element is appended, or with sorting enabled inserted in
\* front of the element of the next initialised control of _sorted
PlaceNew(W, p, el, c) ==
  IF W.err # "" THEN W
  ELSE LET srt == SelectSeq(W.ctl[p].sorted,
                    LAMBDA f : W.ctl[f].init
                               \/ LooseEq(W.ctl[f].props["name"], W.ctl[c].props["name"]))
           i == FindIndex(srt, LAMBDA t : LooseEq(W.ctl[t].props["name"],
                                                  W.ctl[c].props["name"]))
       IN IF ~Truthy(W.ctl[p].props["orderBy"]) \/ Len(srt) <= 1 \/ i >= Len(srt) \/ i = 0
          THEN AppendChild(W, p, el, c)
          ELSE IF JsToString(W.ctl[srt[i + 1]].props["name"]) \notin DOMAIN W.ctl[p].refs
               THEN Throw(W, "TypeError")  \* nextControl is undefined
               ELSE InsertBefore(W, p, el, c,
                                 W.ctl[p].refs[JsToString(W.ctl[srt[i + 1]].props["name"])])

\* catch (error) { console.log(...) }
Caught(W) == [W EXCEPT !.err = ""]

\* ui._addHtml(element), with this = p: the first control of the element's
\* queue is printed into the element.  Errors are caught and logged.
AddHtml(W, p, el) ==
  Caught(PlaceNew(ParseHtml(Observe([W EXCEPT
                             !.ctl[Lookup(W.ctl[p].htmlElementQueue, el)[1]].polling = TRUE,
                             !.ctl[Lookup(W.ctl[p].htmlElementQueue, el)[1]].pollElement = el],
                          p, el, Lookup(W.ctl[p].htmlElementQueue, el)[1]),
                            Lookup(W.ctl[p].htmlElementQueue, el)[1]),
                  p, el, Lookup(W.ctl[p].htmlElementQueue, el)[1]))

\* ui._addHtmlQueue(control), with this = p
AddHtmlQueueMutant(W, p, c) ==
  IF W.err # "" THEN W
  ELSE LET el == JsToString(W.ctl[c].props["parentElement"])
           q == Append(IF HasPair(W.ctl[p].htmlElementQueue, el)
                       THEN Lookup(W.ctl[p].htmlElementQueue, el) ELSE <<>>, c)
       IN Caught(PlaceNew(Observe([W EXCEPT !.ctl[p].htmlElementQueue = PutPair(@, el, q),
                                            !.ctl[c].polling = TRUE,
                                            !.ctl[c].pollElement = el],
                                  p, el, c),
                          p, el, c))
AddHtmlQueue(W, p, c) ==
  IF W.err # "" THEN W
  ELSE LET el == JsToString(W.ctl[c].props["parentElement"])
           q == Append(IF HasPair(W.ctl[p].htmlElementQueue, el)
                       THEN Lookup(W.ctl[p].htmlElementQueue, el) ELSE <<>>, c)
           W1 == [W EXCEPT !.ctl[p].htmlElementQueue = PutPair(@, el, q)]
       IN IF Len(q) = 1 THEN AddHtml(W1, p, el) ELSE W1

RECURSIVE FlushHtmlControlQueue(_, _)
\* while (control._htmlControlQueue.length > 0) control._addHtmlQueue(shift())
FlushHtmlControlQueue(W, c) ==
  IF W.err # "" \/ W.ctl[c].htmlControlQueue = <<>> THEN W
  ELSE FlushHtmlControlQueue(
         AddHtmlQueue([W EXCEPT !.ctl[c].htmlControlQueue = Tail(@)], c,
                      W.ctl[c].htmlControlQueue[1]), c)

\* The data of an event that carries a control.
ControlData(c) == [v |-> Num(c), k |-> "control", path |-> <<>>]

\* _htmlInit: the initial visibility of the control
InitialVisibility(W, p, c) ==
  IF Truthy(W.ctl[c].props["visible"])
     /\ (W.ctl[p].filterFunction = "" \/ FilterHolds(W.ctl[p].filterFunction, W.ctl, c))
  THEN Show(W, c) ELSE Hide(W, c)

RECURSIVE SubscribeMonitors(_, _, _, _, _)
\* _htmlInit: Object.keys(parentControl._filterMonitorProperties).forEach
SubscribeMonitors(W, p, c, mon, i) ==
  IF W.err # "" \/ i > Len(mon) THEN W
  ELSE SubscribeMonitors(SubscribeFilterLive(W, p, c, mon[i]), p, c, mon, i + 1)

\* _htmlInit: control.Init() (the elements are found if the control is in
\* the document); control._init = true
RunInit(W, c) ==
  IF W.err # "" THEN W
  ELSE [W EXCEPT !.ctl[c].hasDivs = InDocument(W.ctl, c), !.ctl[c].init = TRUE]

\* _htmlInit: parentControl.emit(control.name, control)
EmitName(W, p, c) ==
  IF W.err # "" THEN W
  ELSE Emit(W, p, JsToString(W.ctl[c].props["name"]), ControlData(c), "local")

\* _htmlInit: init on the control, then <name> and newChildControl on the
\* parent
EmitInit(W, p, c) ==
  Emit(EmitName(Emit(W, c, "init", ControlData(c), "local"), p, c),
       p, "newChildControl", ControlData(c), "local")

\* _htmlInit: the control leaves the element's queue and the next one is
\* printed
NextInQueue(W, p, el) ==
  IF W.err # "" THEN W
  ELSE IF Len(Lookup(W.ctl[p].htmlElementQueue, el)) > 1
       THEN AddHtml([W EXCEPT !.ctl[p].htmlElementQueue = PutPair(@, el, Tail(Lookup(@, el)))],
                    p, el)
       ELSE [W EXCEPT !.ctl[p].htmlElementQueue = PutPair(@, el, Tail(Lookup(@, el)))]

\* ui._htmlInit(observer, parentControl, element, control, fallbackTimer)
HtmlInitMutant(W, p, el, c) ==
  FlushHtmlControlQueue(
    NextInQueue(
      EmitInit(
        RunInit(
          SubscribeMonitors(
            InitialVisibility([W EXCEPT !.ctl[c].display = ""], p, c),
            p, c, W.ctl[p].filterMonitor, 1),
          c),
        p, c),
      p, el),
    c)

\* _htmlInit: control._element.style.cssText = control.cssText
SetDisplay(W, c) == IF W.err # "" THEN W ELSE [W EXCEPT !.ctl[c].display = ""]

HtmlInit(W, p, el, c) ==
  FlushHtmlControlQueue(
    NextInQueue(
      EmitInit(
        RunInit(
          SubscribeMonitors(
            InitialVisibility(
              SetDisplay(
                CreateDataBindings(
                  [W EXCEPT !.ctl[c].observer = [state |-> "none", p |-> 0, el |-> ""],
                            !.ctl[c].polling = FALSE,
                            !.ctl[c].elementPollCounter = NaN],   \* delete
                  c),
                c),
              p, c),
            p, c, W.ctl[p].filterMonitor, 1),
          c),
        p, c),
      p, el),
    c)

\* control._elementPollCounter += 1 (undefined + 1 is NaN once the counter
\* has been deleted)
CountPoll(W, c) ==
  [W EXCEPT !.ctl[c].elementPollCounter = IF @ = NaN THEN NaN ELSE @ + 1]

\* The ceiling of the fallback poll: _elementPollCounter >= 10
MaxPolls == 10

\* Element not created, stop polling: observer.disconnect(),
\* clearInterval(fallbackTimer), delete control._elementPollCounter
StopPolling(W, c) ==
  [W EXCEPT !.ctl[c].observer = [state |-> "none", p |-> 0, el |-> ""],
            !.ctl[c].polling = FALSE,
            !.ctl[c].elementPollCounter = NaN]

\* The callback of the 20 ms fallbackTimer that _addHtml, called on p for
\* element el, has started for control c.
FallbackPollMutant(W, p, el, c) ==
  IF InDocument(W.ctl, c) THEN HtmlInit(CountPoll(W, c), p, el, c)
  ELSE CountPoll(W, c)
FallbackPoll(W, p, el, c) ==
  IF InDocument(W.ctl, c) THEN HtmlInit(CountPoll(W, c), p, el, c)
  ELSE IF CountPoll(W, c).ctl[c].elementPollCounter # NaN
          /\ CountPoll(W, c).ctl[c].elementPollCounter >= MaxPolls
       THEN StopPolling(CountPoll(W, c), c)
       ELSE CountPoll(W, c)

\* The condition of line 1268 for a payload without a _parentElement key:
\* the payload carries the parent's order key, or the new control has a
\* property of that name.
Sortable(cs, p, c, data) ==
  \/ Truthy(cs[p].props["orderBy"])
     /\ JsToString(cs[p].props["orderBy"]) \in DOMAIN data.props
  \/ HasProp(cs, c, JsToString(cs[p].props["orderBy"]))

\* _createControl: new controlClass(), name, _parent, _topLevelParent, the
\* getters and setters, this._controls[name] and this[name]
Instantiate(W, p, item) ==
  [W EXCEPT !.ctl =
     Append([@ EXCEPT ![p].controls = Put(@, item.name, Len(W.ctl) + 1),
                      ![p].refs = Put(@, item.name, Len(W.ctl) + 1)],
            [NewControl(item.data.controlType) EXCEPT
               !.key = item.name, !.parent = p,
               !.top = IF W.ctl[p].top # 0 THEN W.ctl[p].top ELSE p,
               !.reactive = TRUE,
               !.props["name"] = Str(item.name)])]

\* _createControl: control.on('orderBy' / 'orderAsc', this._order.bind(control),
\* {caller: control})
SubscribeOrder(W, c) ==
  UiOnNew(UiOnNew(W, c, "orderBy", "order", c, "", 0, c),
          c, "orderAsc", "order", c, "", 0, c)

\* _createControl: the new control enters the parent's _sorted with the sort
\* value of the payload (or of its own property, as a lower-case string)
EnterSorted(W, p, c, data) ==
  IF W.err # "" \/ ~Sortable(W.ctl, p, c, data) THEN W
  ELSE LET ob == JsToString(W.ctl[p].props["orderBy"])
           v == IF ob \in DOMAIN data.props
                THEN SortValOf(data.props[ob])
                ELSE Str(ToLowerString(W.ctl[c].props[ob]))
       IN [W EXCEPT !.ctl = [@ EXCEPT ![c].sortVal = v,
                                      ![p].sorted = InsertAt(@, InsertIndex(W.ctl, p, v), c)]]

\* _createControl: if (subscribeChildOrderProp) control.on(orderBy, ...)
SubscribeSortIf(W, p, c, sortable) ==
  IF sortable THEN SubscribeSort(W, p, c) ELSE W

\* _createControl: the subscriptions made after control.Set(c.data)
SubscribeInternal(W, p, c) ==
  UiOnNew(UiOnNew(UiOnNew(W, c, "visible", "visible", c, "", 0, 0),
                  p, "cssText", "cssText", p, "", 0, 0),
          p, "cssClass", "cssClass", p, "", 0, 0)

\* _createControl: the control waits for its parent's initialisation, or is
\* printed
QueueHtml(W, p, c) ==
  IF W.err # "" THEN W
  ELSE IF ~W.ctl[p].init
       THEN [W EXCEPT !.ctl[p].htmlControlQueue = Append(@, c)]
       ELSE AddHtmlQueue(W, p, c)

\* The part of _createControl that instantiates the class of the queue item
\* [data, name] as child number c of p.
CreateAs(W, p, item, c) ==
  QueueHtml(
    SubscribeInternal(
      SubscribeSortIf(
        Set(EnterSorted(SubscribeOrder(Instantiate(W, p, item), c), p, c, item.data),
            c, item.data),
        p, c, Sortable(Instantiate(W, p, item).ctl, p, c, item.data)),
      p, c),
    p, c)

Create(W, p, item) == CreateAs(W, p, item, Len(W.ctl) + 1)

\* this._controlsQueue.shift()
Shift(W, p) == IF W.err # "" THEN W ELSE [W EXCEPT !.ctl[p].queue = Tail(@)]

RECURSIVE RunQueue(_, _)

NextItemMutant(W, p) == W
\* The rest of the while loop of _createControl after an iteration
NextItem(W, p) == IF W.err # "" THEN W ELSE RunQueue(Shift(W, p), p)

\* await this._loadScript(c.data.controlType): the driver waits for the
\* request it has just made
Await(W, p) == [W EXCEPT !.ctl[p].driver = Len(W.S.reqs)]

\* The while loop of _createControl on control p, from the top of an
\* iteration up to the next await (driver # 0), the end of the queue, or an
\* error (which ends the async function and leaves the queue as it is).
RunQueue(W, p) ==
  IF W.err # "" \/ W.ctl[p].queue = <<>> THEN W
  ELSE IF W.ctl[p].queue[1].name \in DOMAIN W.ctl[p].controls
       THEN NextItem(Set(W, W.ctl[p].controls[W.ctl[p].queue[1].name],
                         W.ctl[p].queue[1].data), p)
       ELSE IF GetDynamicClass(cls, W.ctl[p].queue[1].data.controlType)
            THEN NextItem(Create(W, p, W.ctl[p].queue[1]), p)
            ELSE Await(ControlLoadScript(W, p, W.ctl[p].queue[1].data.controlType), p)

\* _createControl: this._controlsQueue.push({data, name}); the loop is
\* entered only by the call that finds the queue empty
Enqueue(W, p, data, name) ==
  [W EXCEPT !.ctl[p].queue = Append(@, [data |-> data, name |-> name])]

StartQueue(W, p) == IF Len(W.ctl[p].queue) = 1 THEN RunQueue(W, p) ELSE W

\* ui._createControl(data, name), with this = p, up to its first await
CreateControlMutant(W, p, data, name) ==
  RunQueue(Enqueue(ControlLoadScript(W, p, data.controlType), p, data, name), p)
CreateControl(W, p, data, name) ==
  StartQueue(Enqueue(ControlLoadScript(W, p, data.controlType), p, data, name), p)

\* The continuation of `await this._loadScript(...)` in _createControl: the
\* class is looked up again if the result is true, the control is created if
\* the class exists, the item leaves the queue and the loop goes on.
ResumeCreateControl(W, p, loaded) ==
  NextItem(IF W.S.reqs[W.ctl[p].driver].result = "true"
              /\ GetDynamicClass(loaded, W.ctl[p].queue[1].data.controlType)
           THEN Create([W EXCEPT !.ctl[p].driver = 0], p, W.ctl[p].queue[1])
           ELSE [W EXCEPT !.ctl[p].driver = 0],
           p)

(***************************************************************************)
(*                                 TASKS                                   *)
(***************************************************************************)

\* The descriptor of a task: what was called, on which control, with which
\* event or property name, scope, value and payload.
NoPayload == Payload("", EmptyMap, EmptyMap, FALSE)
Op(kind, c, ev, scope, val, p) ==
  [kind |-> kind, c |-> c, ev |-> ev, scope |-> scope, val |-> val, p |-> p]
NoOp == Op("none", 0, "", "", Str(""), NoPayload)

\* The state a task leaves.
Task(W, o) ==
  /\ SetWorld(W)
  /\ op' = o
  /\ UNCHANGED cls

\* Control instances created or asked for: the creation timers and the queue
\* entries count as the instances they may become.
RECURSIVE SumQueues(_, _)
SumQueues(cs, i) == IF i > Len(cs) THEN 0 ELSE Len(cs[i].queue) + SumQueues(cs, i + 1)
Instances(W) == Len(W.ctl) + Len(W.timers) + SumQueues(W.ctl, 1)

\* The application may start a task: no continuation is pending, and the
\* bounds of the model leave room for what the task creates.
Idle == ~MicroPending /\ fnc < MaxFn

\* The application calls control.Set(p).
SetCall(c, p) ==
  /\ Idle
  /\ \E W \in {Set(World, c, p)} :
       /\ Instances(W) <= MaxCtl
       /\ Task(W, Op("Set", c, "", "", Str(""), p))

\* The application assigns control[k] = v.
AssignCall(c, k, v) ==
  /\ Idle
  /\ k \in DOMAIN ctl[c].props
  /\ Task(Assign(World, c, k, v), Op("assign", c, k, "", v, NoPayload))

\* The application calls control.emit(ev, data, scope).
EmitCall(c, ev, scope) ==
  /\ Idle
  /\ Task(Emit(World, c, ev, NoData, scope), Op("emit", c, ev, scope, Str(""), NoPayload))

\* The application calls control.on(ev, listener) or control.once(ev, listener)
\* with a new listener function.
OnCall(c, ev, once) ==
  /\ Idle
  /\ Task(UiOn([World EXCEPT !.fnc = @ + 1], c, ev, Fn(fnc + 1, "obs", c, ev, 0), once, 0),
          Op(IF once THEN "once" ELSE "on", c, ev, "", Str(""), NoPayload))

\* The application calls parent.RemoveChild(name).
RemoveChildCall(p, name) ==
  /\ Idle
  /\ Task(RemoveChild(World, p, name), Op("RemoveChild", p, name, "", Str(""), NoPayload))

\* The application calls parent.filter(f, {monitor: mon}), parent.filter(f)
\* or parent.filter().
FilterCall(p, f, hasMonitor, mon) ==
  /\ Idle
  /\ Task(Filter(World, p, f, hasMonitor, mon),
          Op("filter", p, f, "", Str(""), NoPayload))

\* The oldest 1 ms timer of Set fires: this._createControl(data[k], k).
TimerFire ==
  /\ ~MicroPending
  /\ timers # <<>>
  /\ Task(CreateControl([World EXCEPT !.timers = Tail(@)],
                        timers[1].c, timers[1].data, timers[1].name),
          Op("timer", timers[1].c, timers[1].name, "", Str(""), timers[1].data))

\* The driver of the creation queue of control p continues after its await.
ResumeDriver(p) ==
  /\ DriverReady(p)
  /\ Task(ResumeCreateControl(World, p, cls), Op("resume", p, "", "", Str(""), NoPayload))

\* The MutationObserver created by _addHtml for control c reports a change
\* of the children of the element it observes.
ObserverFire(c) ==
  /\ ctl[c].observer.state = "fired"
  /\ Task(HtmlInit(World, ctl[c].observer.p, ctl[c].observer.el, c),
          Op("htmlInit", c, "", "", Str(""), NoPayload))

\* A step of the module resolver, in a page with control trees.
LoaderTask(A) ==
  /\ A
  /\ UNCHANGED <<ctl, timers, fnc>>
  /\ log' = <<>>
  /\ err' = ""
  /\ op' = Op("load", 0, "", "", Str(""), NoPayload)

\* new uiTopLevelContainer(path): the fields are plain (no setters), Init() has
\* found its elements, _init is true.
TopLevelContainer ==
  [NewControl("uiTopLevelContainer") EXCEPT
     !.rootName = "top1", !.init = TRUE, !.hasDivs = TRUE,
     !.props = [k \in PropNames \ {"rank", "label"} |->
                  Defaults("uiTopLevelContainer")[k]]]

\* A page with one top-level container; the control scripts in Loaded are
\* part of the page (script tags), the others are fetched on demand.
TreeInit(Loaded) ==
  /\ cls = {"ui"} \cup Loaded
  /\ pendingScripts = [r \in Roots |-> {}]
  /\ scriptWaiters = [r \in Roots |-> [n \in Types |-> <<>>]]
  /\ loads = <<>>
  /\ reqs = <<>>
  /\ ctl = <<TopLevelContainer>>
  /\ timers = <<>>
  /\ fnc = 0
  /\ log = <<>>
  /\ err = ""
  /\ op = NoOp

\* The application calls control.on(ev, fn, {caller}) or control.once(ev, fn,
\* {caller}) with a listener function it already holds (caller = 0: no
\* options).
OnListenerCall(c, ev, fn, once, caller) ==
  /\ Idle
  /\ Task(UiOn(World, c, ev, fn, once, caller),
          Op(IF once THEN "once" ELSE "on", c, ev, "", Num(fn.id), NoPayload))

\* The application calls control.off(ev, fn).
OffCall(c, ev, fid) ==
  /\ Idle
  /\ Task(DispatcherOff(World, c, ev, fid), Op("off", c, ev, "", Num(fid), NoPayload))

\* The application calls control.clearEvents().
ClearEventsCall(c) ==
  /\ Idle
  /\ Task(ClearEvents(World, c), Op("clearEvents", c, "", "", Str(""), NoPayload))

\* The application (or a data binding) calls control.NotifyProperty(k).
NotifyCall(c, k) ==
  /\ Idle
  /\ k \in DOMAIN ctl[c].props
  /\ Task(NotifyProperty(World, c, k), Op("notify", c, k, "", Str(""), NoPayload))

\* The 20 ms fallback timer of control c ticks.
PollFire(c) ==
  /\ ~MicroPending
  /\ ctl[c].polling
  /\ Task(FallbackPoll(World, ctl[c].parent, ctl[c].pollElement, c),
          Op("poll", c, "", "", Str(""), NoPayload))

\* The MutationObserver of control c does not deliver a pending notification
\* (line 1387: "mutation observer is not triggering"); it keeps observing.
ObserverMiss(c) ==
  /\ ctl[c].observer.state = "fired"
  /\ ~LoaderMicroPending
  /\ Task([World EXCEPT !.ctl[c].observer.state = "armed"],
          Op("miss", c, "", "", Str(""), NoPayload))

\* The application calls control.on('remove', P) with a new listener P that
\* inspects the control.
ProbeCall(c) ==
  /\ Idle
  /\ Task(UiOnNew(World, c, "remove", "probe", c, "remove", 0, 0),
          Op("on", c, "remove", "", Str(""), NoPayload))

(***************************************************************************)
(* Properties, Set and Get: a page whose control scripts are all loaded,   *)
(* a child a of the top-level container and a child b of a.                *)
(***************************************************************************)

\* The values the application assigns.
Values == {Num(0), Num(1), Str(""), Str("1"), Bool(FALSE)}

\* Payloads that set rank, and hideData
RankPayloads == {Payload("", "rank" :> v, EmptyMap, FALSE) : v \in Values}
HidePayloads == {Payload("", "hideData" :> Bool(h), EmptyMap, FALSE) : h \in BOOLEAN}

\* {a: {controlType: "Mix", label: v, b: {controlType: "Mix", rank: 1}}}
CreatePayloads ==
  {Payload("", EmptyMap,
           "a" :> Payload("Mix", "label" :> v,
                          "b" :> Payload("Mix", "rank" :> Num(1), EmptyMap, FALSE),
                          FALSE),
           FALSE) : v \in {Str("x")}}

\* {rank: v, b: {label: w}} and {b: {hideData: h}}, applied to a
NestedPayloads ==
  {Payload("", "rank" :> v, "b" :> Payload("", "label" :> w, EmptyMap, FALSE), FALSE) :
     v \in {Num(1)}, w \in {Str(""), Str("0")}}

InitProps == TreeInit(Types)

NextProps ==
  \/ \E p \in CreatePayloads : SetCall(1, p)
  \/ \E c \in DOMAIN ctl : \E p \in RankPayloads : ctl[c].key = "a" /\ SetCall(c, p)
  \/ \E c \in DOMAIN ctl : \E p \in HidePayloads : ctl[c].key = "b" /\ SetCall(c, p)
  \/ \E c \in DOMAIN ctl : \E p \in NestedPayloads : ctl[c].key = "a" /\ SetCall(c, p)
  \/ \E c \in DOMAIN ctl : \E v \in Values : ctl[c].key = "b" /\ AssignCall(c, "rank", v)
  \/ TimerFire
  \/ \E c \in DOMAIN ctl : ObserverFire(c)

SpecProps == InitProps /\ [][NextProps]_vars

(***************************************************************************)
(* Claims about properties, Set and Get (checked under SpecProps).         *)
(***************************************************************************)

\* The number of times the change event of property k was raised on control
\* c by the task whose log is lg.
ChangeEvents(lg, c, k) ==
  Cardinality({i \in DOMAIN lg : lg[i].kind = "emit" /\ lg[i].c = c /\ lg[i].ev = k})

\* The values a task assigns to the reactive properties of the control it is
\* called on: the one of an assignment, or the property keys of a payload.
Assigned(o) ==
  IF o.kind = "assign" THEN o.ev :> o.val
  ELSE IF o.kind = "Set" THEN o.p.props
  ELSE EmptyMap

\* C3: an assignment (direct, or through Set) to a reactive property of an
\* engine-created control of the value it already holds raises no change
\* event, and an assignment of any other value stores that value and raises
\* the change event of the property exactly once.
C3_ChangeEventIffDifferent ==
  [][\A k \in DOMAIN Assigned(op') :
       (op'.c \in DOMAIN ctl /\ ctl[op'.c].reactive /\ k \in DOMAIN ctl[op'.c].props) =>
         IF ctl[op'.c].props[k] = Assigned(op')[k]
         THEN /\ ChangeEvents(log', op'.c, k) = 0
              /\ ctl'[op'.c].props[k] = ctl[op'.c].props[k]
         ELSE /\ ChangeEvents(log', op'.c, k) = 1
              /\ ctl'[op'.c].props[k] = Assigned(op')[k]]_vars

RECURSIVE Agrees(_, _, _, _)
\* The result g of Get on control c holds every reactive property the
\* payload p names with the payload's value, and under the key of every
\* child that p names and whose hideData is false a result that agrees with
\* the payload of the child.
Agrees(g, p, cs, c) ==
  /\ \A k \in DOMAIN p.props \cap DOMAIN cs[c].props :
       k \in DOMAIN g.props /\ g.props[k] = p.props[k]
  /\ \A k \in DOMAIN p.kids \cap DOMAIN cs[c].controls :
       ~Truthy(cs[cs[c].controls[k]].props["hideData"]) =>
         /\ k \in DOMAIN g.kids
         /\ Agrees(g.kids[k], p.kids[k], cs, cs[c].controls[k])

RECURSIVE AllExist(_, _, _)
\* Every child the payload names, at any depth, exists: no creation is queued.
AllExist(p, cs, c) ==
  \A k \in DOMAIN p.kids :
    /\ k \in DOMAIN cs[c].controls
    /\ AllExist(p.kids[k], cs, cs[c].controls[k])

\* C2 as stated: once Set(p) is applied to an engine-created control (no
\* child creation is outstanding), Get() with default options returns p's
\* values for the reactive properties and the non-hidden children p names.
C2_GetEqualsPayload ==
  (op.kind = "Set" /\ err = "" /\ ctl[op.c].reactive /\ AllExist(op.p, ctl, op.c)) =>
    Agrees(Get(ctl, op.c, TRUE), op.p, ctl, op.c)

RECURSIVE Stored(_, _, _, _)
\* What Set(p) leaves in control c, given the controls cs0 before and cs1
\* after: each reactive property p names holds p's value, or still its old
\* value if that is loosely equal (==) to p's value; Get({sparse: false})
\* returns these values, Get() returns those of them that are not loosely
\* equal to ''; a child is part of both results iff its hideData is falsy;
\* the same holds for the children p names.
Stored(p, cs0, cs1, c) ==
  /\ \A k \in DOMAIN p.props \cap DOMAIN cs0[c].props :
       /\ cs1[c].props[k] = IF LooseEq(cs0[c].props[k], p.props[k])
                            THEN cs0[c].props[k] ELSE p.props[k]
       /\ Get(cs1, c, FALSE).props[k] = cs1[c].props[k]
       /\ IF cs1[c].props[k] \in {Num(0), Str(""), Bool(FALSE)}
          THEN k \notin DOMAIN Get(cs1, c, TRUE).props
          ELSE Get(cs1, c, TRUE).props[k] = cs1[c].props[k]
  /\ \A k \in DOMAIN p.kids \cap DOMAIN cs0[c].controls :
       /\ cs1[c].controls[k] = cs0[c].controls[k]
       /\ Stored(p.kids[k], cs0, cs1, cs0[c].controls[k])
       /\ \A sparse \in BOOLEAN :
            /\ k \in DOMAIN Get(cs1, c, sparse).kids
                 <=> ~Truthy(cs1[cs1[c].controls[k]].props["hideData"])
            /\ k \in DOMAIN Get(cs1, c, sparse).kids =>
                 Get(cs1, c, sparse).kids[k] = Get(cs1, cs1[c].controls[k], sparse)

\* C2 amended: see Stored; for a control created from a payload the old
\* values are those the constructor leaves.
C2_GetAfterSet ==
  [][/\ (op'.kind = "Set" /\ err' = "" /\ op'.c \in DOMAIN ctl /\ ctl[op'.c].reactive
         /\ ~op'.p.remove) =>
          Stored(op'.p, ctl, ctl', op'.c)
     /\ (op'.kind = "timer" /\ err' = "" /\ Len(ctl') = Len(ctl) + 1) =>
          Stored([op'.p EXCEPT !.kids = EmptyMap],
                 Append(ctl, [NewControl(op'.p.controlType) EXCEPT
                                !.props["name"] = Str(op'.ev)]),
                 ctl', Len(ctl'))]_vars

\* C2 witness: Set({rank: 1, b: {label: ""}}) has been applied to a, whose
\* child b exists and holds the label "0" it was given before, so that the
\* empty string was stored as a new value.
C2_Witness ==
  /\ op.kind = "Set" /\ err = "" /\ ctl[op.c].reactive
  /\ "b" \in DOMAIN op.p.kids /\ "b" \in DOMAIN ctl[op.c].controls
  /\ op.p.kids["b"].props["label"] = Str("")
  /\ ctl[ctl[op.c].controls["b"]].props["label"] = Str("")
  /\ "label" \notin DOMAIN Get(ctl, op.c, TRUE).kids["b"].props

(***************************************************************************)
(* Events: a page whose control scripts are all loaded; the application    *)
(* creates a child a of the top-level container and a child b of a,        *)
(* registers callbacks, emits and removes.                                 *)
(***************************************************************************)

\* The event names the application registers callbacks for, the one it
\* emits, and the scopes of ui.emit.
ListenNames == {"x", "remove"}
EmitNames == {"x"}
Scopes == {"local", "bubble", "top", "local_top"}

\* The callbacks of the application that are registered on some control.
RECURSIVE CountObs(_, _)
CountObs(cbs, i) ==
  IF i > Len(cbs) THEN 0
  ELSE (IF cbs[i].fn.kind = "obs" THEN 1 ELSE 0) + CountObs(cbs, i + 1)
RECURSIVE SumObs(_, _, _)
SumObs(cs, c, names) ==
  IF c > Len(cs) THEN 0
  ELSE IF names = {} THEN SumObs(cs, c + 1, ListenNames)
  ELSE LET n == CHOOSE n \in names : TRUE
       IN (IF n \in DOMAIN cs[c].events THEN CountObs(cs[c].events[n].cbs, 1) ELSE 0)
          + SumObs(cs, c, names \ {n})
Listeners == SumObs(ctl, 1, ListenNames)

\* The application registers its callbacks once the tree is built and before
\* it emits or removes; on a control that has just been removed it may
\* register again.
Registering(c, ev, once) ==
  /\ Listeners < MaxObs
  /\ fnc < MaxObsFn
  /\ \/ /\ Len(ctl) = 3
        /\ op.kind \in {"timer", "htmlInit", "on", "once"}
        /\ \A d \in DOMAIN ctl : ctl[d].removed = 0
        /\ ev = "remove" => ~once /\ ctl[c].key = "b"
     \/ /\ op.kind = "RemoveChild"
        /\ ctl[c].removed # 0
        /\ ev = "x" /\ ~once

InitEvents == TreeInit(Types)

NextEvents ==
  \/ \E p \in CreatePayloads : Len(ctl) = 1 /\ timers = <<>> /\ SetCall(1, p)
  \/ \E c \in DOMAIN ctl : \E ev \in ListenNames : \E once \in BOOLEAN :
       Registering(c, ev, once) /\ OnCall(c, ev, once)
  \/ \E c \in DOMAIN ctl : \E ev \in EmitNames : \E s \in Scopes : EmitCall(c, ev, s)
  \/ \E p \in DOMAIN ctl : \E n \in {"a", "b"} :
       n \in DOMAIN ctl[p].controls /\ RemoveChildCall(p, n)
  \/ TimerFire
  \/ \E c \in DOMAIN ctl : ObserverFire(c)

SpecEvents == InitEvents /\ [][NextEvents]_vars

(***************************************************************************)
(* Claims about events and removal (checked under SpecEvents).             *)
(***************************************************************************)

\* What one dispatch of ev on control c leaves in the log, given the
\* controls cs before it: the dispatch, then one invocation per callback
\* registered for ev on c, in registration order.
Dispatched(cs, c, ev, data) ==
  <<[kind |-> "emit", c |-> c, ev |-> ev, data |-> data, fn |-> 0]>> \o
  (IF ev \in DOMAIN cs[c].events
   THEN [i \in 1..Len(cs[c].events[ev].cbs) |->
           [kind |-> cs[c].events[ev].cbs[i].fn.kind, c |-> c, ev |-> ev,
            data |-> data, fn |-> cs[c].events[ev].cbs[i].fn.id]]
   ELSE <<>>)

RECURSIVE RootWard(_, _, _, _)
\* The dispatches on c, on its parent, and so on up to the root.
RootWard(cs, c, ev, data) ==
  Dispatched(cs, c, ev, data) \o
  (IF cs[c].parent = 0 THEN <<>> ELSE RootWard(cs, cs[c].parent, ev, data))

\* C7: emit(name, data, 'bubble') on a control at any depth invokes the
\* callbacks registered for name on that control, then those of its parent,
\* and so on up to and including the root: each control once, in root-ward
\* order, and nothing else.
C7_BubbleRootWard ==
  [][(op'.kind = "emit" /\ op'.scope = "bubble") =>
       /\ err' = ""
       /\ log' = RootWard(ctl, op'.c, op'.ev, NoData)]_vars

\* C7 witness: a bubbling emit on a control at depth two has invoked
\* callbacks on two controls of its chain and has reached the root.
C7_Witness ==
  /\ op.kind = "emit" /\ op.scope = "bubble" /\ err = ""
  /\ ctl[op.c].parent # 0 /\ ctl[ctl[op.c].parent].parent # 0
  /\ \E i, j, k \in DOMAIN log :
       /\ i < j /\ j < k
       /\ log[i].kind = "obs" /\ log[j].kind = "obs"
       /\ log[i].c # log[j].c
       /\ log[j].c \in {ctl[log[i].c].parent, ctl[ctl[log[i].c].parent].parent}
       /\ log[k].kind = "emit" /\ ctl[log[k].c].parent = 0

\* The invocations of callbacks of control c in a log.
Invoked(lg, c) == {i \in DOMAIN lg : lg[i].fn # 0 /\ lg[i].c = c}

\* C6 as stated: RemoveChild fires remove on the control while all its
\* callbacks are in place, and after RemoveChild has returned an emit on
\* that control, with any name and scope, invokes no callback (of those
\* that existed when the control was removed).
C6_NoCallbackAfterRemove ==
  [][/\ (op'.kind = "RemoveChild" /\ err' = "") =>
          log' = Dispatched(ctl, ctl[op'.c].controls[op'.ev], "remove",
                            [v |-> Num(ctl[op'.c].controls[op'.ev]),
                             k |-> "control", path |-> <<>>])
     /\ (op'.kind = "emit" /\ ctl[op'.c].removed # 0) =>
          \A i \in DOMAIN log' : log'[i].fn = 0 \/ log'[i].fn >= ctl[op'.c].removed]_vars

\* C6 amended: RemoveChild dispatches remove on the control to every
\* callback registered for it, in order, and leaves the control without
\* registrations; afterwards no dispatch on that control, whatever the
\* scope, invokes a callback that was registered on it before RemoveChild
\* returned (the function objects created before have a smaller identity
\* than the one recorded at removal).  Callbacks of the parent chain and of
\* the top-level control are still reached by the scopes bubble, top and
\* local_top.
C6_RemoveThenSilent ==
  [][/\ (op'.kind = "RemoveChild" /\ err' = "") =>
          /\ log' = Dispatched(ctl, ctl[op'.c].controls[op'.ev], "remove",
                               [v |-> Num(ctl[op'.c].controls[op'.ev]),
                                k |-> "control", path |-> <<>>])
          /\ \A e \in DOMAIN ctl'[ctl[op'.c].controls[op'.ev]].events :
               ctl'[ctl[op'.c].controls[op'.ev]].events[e].cbs = <<>>
          /\ ctl'[ctl[op'.c].controls[op'.ev]].removed # 0
     /\ \A c \in DOMAIN ctl :
          ctl[c].removed # 0 =>
            \A i \in Invoked(log', c) : log'[i].fn >= ctl[c].removed]_vars

\* C6 witness: an event for which the control had callbacks when it was
\* removed has been emitted on the removed control, and no callback of the
\* control was invoked.
C6_Witness ==
  /\ op.kind = "emit" /\ err = "" /\ op.scope \in {"local", "bubble"}
  /\ ctl[op.c].removed # 0
  /\ op.ev \in DOMAIN ctl[op.c].events
  /\ ctl[op.c].events[op.ev].cbs = <<>>
  /\ Invoked(log, op.c) = {}

(***************************************************************************)
(* Claims about removed controls (checked under SpecEvents).               *)
(***************************************************************************)

\* The registrations control c holds in cs: event name and position.
Registrations(cs, c) ==
  UNION {{<<e, i>> : i \in DOMAIN cs[c].events[e].cbs} : e \in DOMAIN cs[c].events}

\* The registrations of control c that the application did not make with
\* on or once after c was removed.
Leftover(cs, c) ==
  {r \in Registrations(cs, c) :
     \/ cs[c].events[r[1]].cbs[r[2]].fn.kind # "obs"
     \/ cs[c].events[r[1]].cbs[r[2]].fn.id < cs[c].removed}

\* C11: after RemoveChild(name) on a parent with a child c under that name,
\* c is absent from the parent's child map and from the parent's
\* name-indexed reference and holds no registration; in every later state c
\* holds no registration other than those the application made with on or
\* once after the removal.
C11_RemovedHoldsNothing ==
  [][/\ (op'.kind = "RemoveChild" /\ op'.ev \in DOMAIN ctl[op'.c].controls) =>
          /\ op'.ev \notin DOMAIN ctl'[op'.c].controls
          /\ op'.ev \notin DOMAIN ctl'[op'.c].refs
          /\ Registrations(ctl', ctl[op'.c].controls[op'.ev]) = {}
     /\ \A c \in DOMAIN ctl' : ctl'[c].removed # 0 => Leftover(ctl', c) = {}]_vars

RECURSIVE TreeRoot(_, _)
\* The root of the tree control c belongs to.
TreeRoot(cs, c) == IF cs[c].parent = 0 THEN c ELSE TreeRoot(cs, cs[c].parent)

\* C13: emit(name, data, 'top') on any control of a tree, the root included,
\* invokes exactly the callbacks registered for name on the root and none on
\* the emitting control; emit(name, data, 'local_top') invokes the callbacks
\* of the emitting control and then those of the root; neither call raises
\* an error.
C13_TopReachesRoot ==
  [][(op'.kind = "emit" /\ op'.scope \in {"top", "local_top"}) =>
       /\ err' = ""
       /\ log' = (IF op'.scope = "local_top"
                  THEN Dispatched(ctl, op'.c, op'.ev, NoData) ELSE <<>>)
                 \o Dispatched(ctl, TreeRoot(ctl, op'.c), op'.ev, NoData)]_vars

(***************************************************************************)
(* Creation: a page without control scripts; the application asks the      *)
(* top-level container for a child a, whose class is fetched on demand.    *)
(***************************************************************************)

\* The payloads of the child: {controlType, label: "x", rank: 1},
\* {controlType, rank: "1"} and {controlType, rank: 2}
ChildPayloads ==
  {Payload(t, ps, EmptyMap, FALSE) :
     t \in {"Mid"},
     ps \in {("label" :> Str("x")) @@ ("rank" :> Num(1)),
             "rank" :> Str("1"),
             "rank" :> Num(2)}}

InitCreate == TreeInit({})

NextCreate ==
  \/ \E p \in ChildPayloads :
       /\ Len(reqs) < MaxCreateReq
       /\ SetCall(1, Payload("", EmptyMap, "a" :> p, FALSE))
  \/ TimerFire
  \/ \E l \in DOMAIN loads : LoaderTask(FetchOk(l))
  \/ \E l \in DOMAIN loads : LoaderTask(FetchFail(l))
  \/ \E l \in DOMAIN loads : LoaderTask(StartScript(l))
  \/ \E l \in DOMAIN loads : LoaderTask(ScriptLoaded(l))
  \/ \E l \in DOMAIN loads : LoaderTask(ScriptError(l))
  \/ \E p \in DOMAIN ctl : ResumeDriver(p)
  \/ \E c \in DOMAIN ctl : ObserverFire(c)

SpecCreate == InitCreate /\ [][NextCreate]_vars

(***************************************************************************)
(* Claims about creation (checked under SpecCreate).                       *)
(***************************************************************************)

\* The second payload merged over the first, over the fields the
\* constructor of the class leaves.
Merged(type, name, p1, p2) ==
  [k \in PropNames |->
     IF k = "name" THEN Str(name)
     ELSE IF k = "controlType" THEN Str(type)
     ELSE IF k \in DOMAIN p2.props THEN p2.props[k]
     ELSE IF k \in DOMAIN p1.props THEN p1.props[k]
     ELSE Defaults(type)[k]]

\* The controls that were instantiated under the name n for parent p.
InstancesOf(cs, p, n) == {c \in DOMAIN cs : cs[c].parent = p /\ cs[c].key = n}

\* C1: two Set calls have asked control p for a child of the same name
\* while the class is being resolved (both requests wait in p's queue).
\* When the resolution succeeds, exactly one control is instantiated for the
\* name, it is the one in p's child map, and its property values are the
\* second payload merged over the first.
C1_OneInstanceMerged ==
  [][(/\ op'.kind = "resume"
      /\ Len(ctl[op'.c].queue) = 2
      /\ ctl[op'.c].queue[1].name = ctl[op'.c].queue[2].name
      /\ reqs[ctl[op'.c].driver].result = "true"
      /\ GetDynamicClass(cls, ctl[op'.c].queue[1].data.controlType)) =>
       /\ Cardinality(InstancesOf(ctl', op'.c, ctl[op'.c].queue[1].name)) = 1
       /\ ctl'[op'.c].controls[ctl[op'.c].queue[1].name]
            \in InstancesOf(ctl', op'.c, ctl[op'.c].queue[1].name)
       /\ ctl'[ctl'[op'.c].controls[ctl[op'.c].queue[1].name]].props =
            Merged(ctl[op'.c].queue[1].data.controlType, ctl[op'.c].queue[1].name,
                   ctl[op'.c].queue[1].data, ctl[op'.c].queue[2].data)]_vars

(***************************************************************************)
(* Updates of a pending child: the page of SpecCreate; while the child a   *)
(* has been asked for and is not instantiated yet, the application also    *)
(* calls Set with data for a that has no controlType.                      *)
(***************************************************************************)

\* {a: {controlType: "Mid", rank: 2}}
PendingCreate ==
  Payload("", EmptyMap, "a" :> Payload("Mid", "rank" :> Num(2), EmptyMap, FALSE), FALSE)

\* {a: {rank: 5}} and {a: {remove: true}}
PendingUpdates ==
  {Payload("", EmptyMap, "a" :> Payload("", "rank" :> Num(5), EmptyMap, FALSE), FALSE),
   Payload("", EmptyMap, "a" :> Payload("", EmptyMap, EmptyMap, TRUE), FALSE)}

\* A child named n has been asked of control p and is not instantiated.
Requested(cs, ts, p, n) ==
  /\ n \notin DOMAIN cs[p].controls
  /\ \/ \E i \in DOMAIN ts : ts[i].c = p /\ ts[i].name = n
     \/ \E i \in DOMAIN cs[p].queue : cs[p].queue[i].name = n

NextPending ==
  \/ Len(reqs) < MaxReq /\ SetCall(1, PendingCreate)
  \/ \E p \in PendingUpdates : Requested(ctl, timers, 1, "a") /\ SetCall(1, p)
  \/ TimerFire
  \/ \E l \in DOMAIN loads : LoaderTask(FetchOk(l))
  \/ \E l \in DOMAIN loads : LoaderTask(FetchFail(l))
  \/ \E l \in DOMAIN loads : LoaderTask(StartScript(l))
  \/ \E l \in DOMAIN loads : LoaderTask(ScriptLoaded(l))
  \/ \E l \in DOMAIN loads : LoaderTask(ScriptError(l))
  \/ \E p \in DOMAIN ctl : ResumeDriver(p)
  \/ \E c \in DOMAIN ctl : ObserverFire(c)

SpecPending == InitCreate /\ [][NextPending]_vars

\* C36: a Set payload for the key a that has no controlType, applied while
\* the child a has been asked for and is not instantiated, changes nothing;
\* the child, once created, has the values of the payloads with a
\* controlType only and is never removed.
C36_PendingUpdateIsDropped ==
  [][/\ (op'.kind = "Set" /\ op'.p \in PendingUpdates) =>
          /\ err' = ""
          /\ <<ctl', timers', loads', reqs', cls'>> = <<ctl, timers, loads, reqs, cls>>
     /\ \A c \in DOMAIN ctl' :
          ctl'[c].key = "a" =>
            /\ ctl'[c].props["rank"] = Num(2)
            /\ ctl'[c].removed = 0
            /\ ctl'[1].controls["a"] = c]_vars

\* An update without controlType has been applied while the request for a
\* waited for its class in the creation queue.
C36_Witness ==
  /\ op.kind = "Set" /\ op.p \in PendingUpdates
  /\ \E i \in DOMAIN ctl[1].queue : ctl[1].queue[i].name = "a"
(***************************************************************************)
(* Claims about the module resolver (checked under SpecLoad).              *)
(***************************************************************************)

\* The script element of load l has been appended to the document.
ScriptBegun(l) == loads[l].phase \in {"script", "done", "stuck"}

\* Load l is outstanding: fetch issued, completion signal not yet emitted.
InFlight(l) == loads[l].phase \in {"fetch", "bases", "script"}

\* The requests load l made for its declared base types.
ReqsBy(l) == {i \in DOMAIN reqs : reqs[i].by = l}

\* C8: the implementation script of a type is appended only after every
\* request made for a declared base type has been resolved, each declared
\* base type has been requested, and, where a base type was resolved by a
\* load of its own, that load's base requests had been resolved as well
\* (Leaf waits for Mid and Mix, and through Mid for Mix again).
C8_BasesBeforeLeaf ==
  \A l \in DOMAIN loads :
    ScriptBegun(l) =>
      /\ {reqs[i].name : i \in ReqsBy(l)} = DeclaredBases(loads[l].name)
      /\ \A i \in ReqsBy(l) :
           /\ reqs[i].state = "resolved"
           /\ reqs[i].result = "true" =>
                /\ reqs[i].from \in DOMAIN loads
                /\ loads[reqs[i].from].phase = "done"
                /\ \A j \in ReqsBy(reqs[i].from) : reqs[j].state = "resolved"

\* C8 witness: the script of Leaf is being loaded after its requests for Mid
\* and for Mix were both answered by the completion signal of a load.
C8_Witness ==
  \E l \in DOMAIN loads :
    /\ loads[l].name = "Leaf"
    /\ loads[l].phase = "script"
    /\ \E i, j \in ReqsBy(l) :
         /\ reqs[i].name = "Mid" /\ reqs[i].result = "true"
         /\ reqs[j].name = "Mix" /\ reqs[j].result = "true"

LoadFailed(l) ==
  \/ loads[l].phase \in {"failed", "stuck"}
  \/ \E i \in ReqsBy(l) : reqs[i].result = "false"

\* No later load of the same name was started on the same top-level control.
LatestLoad(l) ==
  ~\E k \in DOMAIN loads :
      k > l /\ loads[k].root = loads[l].root /\ loads[k].name = loads[l].name

\* C10 as stated: once a load has failed in any of the three ways, the
\* in-flight marker of its name is cleared, no requester is left waiting,
\* and the requesters it answered were answered false.
C10_FailureClears ==
  \A l \in DOMAIN loads :
    (LoadFailed(l) /\ LatestLoad(l) /\ ~InFlight(l)) =>
      /\ loads[l].name \notin pendingScripts[loads[l].root]
      /\ scriptWaiters[loads[l].root][loads[l].name] = <<>>
      /\ \A i \in DOMAIN reqs : reqs[i].from = l => reqs[i].result = "false"

RECURSIVE AllBases(_)
\* The transitive base types of a type, as the declarations name them.
AllBases(name) ==
  DeclaredBases(name) \cup UNION {AllBases(b) : b \in DeclaredBases(name) \cap Types}

\* C29: a resolution request for a type is answered true only if the class
\* of the type and of every transitive base type exists; and once a request
\* that a load made for a base type has been answered false, no request is
\* answered true by that load.
C29_TrueOnlyIfLoaded ==
  /\ \A i \in DOMAIN reqs :
       reqs[i].result = "true" =>
         \A n \in {reqs[i].name} \cup AllBases(reqs[i].name) : GetDynamicClass(cls, n)
  /\ \A l \in DOMAIN loads :
       (\E i \in ReqsBy(l) : reqs[i].result = "false") =>
         \A j \in DOMAIN reqs : reqs[j].from = l => reqs[j].result # "true"

InitLoad ==
  /\ LoaderInit
  /\ ctl = <<>> /\ timers = <<>> /\ fnc = 0 /\ log = <<>> /\ err = ""
  /\ op = NoOp

NextLoad == LoaderStep /\ UNCHANGED treeVars

SpecLoad == InitLoad /\ [][NextLoad]_vars


(***************************************************************************)
(* Sorting: a page whose control scripts are all loaded; the application   *)
(* sets the order key of the top-level container, creates the children a   *)
(* and b with distinct ranks in any order, and flips orderAsc.             *)
(***************************************************************************)

\* {a: {controlType: "Mix", rank: 2}} and {b: {controlType: "Mix", rank: 1}}
SortPayloads ==
  {Payload("", EmptyMap, n :> Payload("Mix", "rank" :> Num(IF n = "a" THEN 2 ELSE 1),
                                      EmptyMap, FALSE), FALSE) : n \in {"a", "b"}}

InitSort == TreeInit(Types)

NextSort ==
  \/ \E p \in SortPayloads :
       /\ DOMAIN p.kids \cap DOMAIN ctl[1].controls = {}
       /\ \A i \in DOMAIN timers : timers[i].name \notin DOMAIN p.kids
       /\ SetCall(1, p)
  \/ \E v \in {Str(""), Str("rank")} :
       ctl[1].props["orderBy"] # v /\ AssignCall(1, "orderBy", v)
  \/ \E v \in BOOLEAN :
       ctl[1].props["orderAsc"] # Bool(v) /\ AssignCall(1, "orderAsc", Bool(v))
  \/ \E c \in DOMAIN ctl : \E v \in {Num(0), Num(3)} :
       ctl[c].reactive /\ ctl[c].init /\ AssignCall(c, "rank", v)
  \/ TimerFire
  \/ \E c \in DOMAIN ctl : ObserverFire(c)

SpecSort == InitSort /\ [][NextSort]_vars

(***************************************************************************)
(* Claims about sorting (checked under SpecSort).                          *)
(***************************************************************************)

\* The children of p are all live: none is waiting in a timer, in p's
\* creation queue or for its initialisation.
AllLive(cs, ts, p) ==
  /\ cs[p].queue = <<>>
  /\ \A i \in DOMAIN ts : ts[i].c # p
  /\ \A n \in DOMAIN cs[p].controls : cs[cs[p].controls[n]].init

\* The display order of p's default container is ascending (descending) by
\* the numeric order key, and shows every child of p.
Displayed(cs, p, asc) ==
  LET shown == cs[p].dom["_controlsDiv"]
      key == JsToString(cs[p].props["orderBy"])
  IN /\ {shown[i] : i \in DOMAIN shown} = {cs[p].controls[n] : n \in DOMAIN cs[p].controls}
     /\ \A i, j \in DOMAIN shown :
          i < j => IF asc THEN cs[shown[i]].props[key].n < cs[shown[j]].props[key].n
                          ELSE cs[shown[i]].props[key].n > cs[shown[j]].props[key].n

\* C4: a parent has a non-empty order key and live children with distinct
\* keys, displayed in ascending order under orderAsc = true.  Flipping
\* orderAsc to false rewrites the display order to descending, and
\* instantiates and removes no control.
C4_FlipReorders ==
  [][(/\ op'.kind = "assign" /\ op'.ev = "orderAsc" /\ op'.val = Bool(FALSE)
      /\ ctl[op'.c].props["orderAsc"] = Bool(TRUE)
      /\ ctl[op'.c].props["orderBy"] = Str("rank")
      /\ Cardinality(DOMAIN ctl[op'.c].controls) >= 2
      /\ AllLive(ctl, timers, op'.c)
      /\ Displayed(ctl, op'.c, TRUE)) =>
       /\ Displayed(ctl', op'.c, FALSE)
       /\ Len(ctl') = Len(ctl)
       /\ ctl'[op'.c].controls = ctl[op'.c].controls]_vars

(***************************************************************************)
(* Re-insertion of one sorted child: the page of SpecSort, where the       *)
(* application may also create both children with one call of Set, may     *)
(* assign the rank of a child as soon as the child exists, and where a     *)
(* MutationObserver may miss its notification, which leaves the            *)
(* initialisation of the child to the fallback timer of _addHtml.          *)
(***************************************************************************)

\* {a: {controlType: "Mix", rank: 2}, b: {controlType: "Mix", rank: 1}}
ResortPayloads ==
  SortPayloads \cup
    {Payload("", EmptyMap,
             [n \in {"a", "b"} |->
                Payload("Mix", "rank" :> Num(IF n = "a" THEN 2 ELSE 1), EmptyMap, FALSE)],
             FALSE)}

NextResort ==
  \/ \E p \in ResortPayloads :
       /\ DOMAIN p.kids \cap DOMAIN ctl[1].controls = {}
       /\ \A i \in DOMAIN timers : timers[i].name \notin DOMAIN p.kids
       /\ SetCall(1, p)
  \/ ctl[1].props["orderBy"] = Str("") /\ Len(ctl) = 1 /\ AssignCall(1, "orderBy", Str("rank"))
  \/ \E v \in BOOLEAN :
       ctl[1].props["orderAsc"] # Bool(v) /\ Len(ctl) = 1 /\ AssignCall(1, "orderAsc", Bool(v))
  \/ \E c \in DOMAIN ctl : \E v \in {Num(0), Num(3)} :
       c # 1 /\ AssignCall(c, "rank", v)
  \/ TimerFire
  \/ \E c \in DOMAIN ctl : ObserverFire(c)
  \/ \E c \in DOMAIN ctl : ObserverMiss(c)
  \/ \E c \in DOMAIN ctl : PollFire(c)

SpecResort == InitSort /\ [][NextResort]_vars

\* The sequence q without control c.
Without(q, c) == SelectSeq(q, LAMBDA t : t # c)

\* The sort index of p is in the order of p's direction by the order key.
IndexOrdered(cs, p) ==
  LET q == cs[p].sorted
      key == JsToString(cs[p].props["orderBy"])
  IN \A i, j \in DOMAIN q :
       i < j => IF Truthy(cs[p].props["orderAsc"])
                THEN ~JsGreater(cs[q[i]].props[key], cs[q[j]].props[key])
                ELSE ~JsGreater(cs[q[j]].props[key], cs[q[i]].props[key])

\* The controls of p's sort index that p's default container displays are
\* displayed in the order of the index.
ShownInOrder(cs, p) ==
  LET q == cs[p].sorted
      shown == cs[p].dom["_controlsDiv"]
  IN SelectSeq(shown, LAMBDA t : \E i \in DOMAIN q : q[i] = t)
       = SelectSeq(q, LAMBDA t : \E i \in DOMAIN shown : shown[i] = t)

\* The application assigns a new value to the order key of control c, a
\* control of the sort index of its parent, which is ordered and displayed
\* in order.
KeyChange(cs, o) ==
  /\ o.kind = "assign"
  /\ cs[o.c].parent # 0
  /\ Truthy(cs[cs[o.c].parent].props["orderBy"])
  /\ o.ev = JsToString(cs[cs[o.c].parent].props["orderBy"])
  /\ \E i \in DOMAIN cs[cs[o.c].parent].sorted : cs[cs[o.c].parent].sorted[i] = o.c
  /\ cs[o.c].props[o.ev] # o.val
  /\ IndexOrdered(cs, cs[o.c].parent)
  /\ ShownInOrder(cs, cs[o.c].parent)

\* The change of the order key of o.c left the index and the display of its
\* parent in order, and every other control where it was.
Reinserted(cs, ds, o) ==
  /\ \E i \in DOMAIN ds[cs[o.c].parent].sorted : ds[cs[o.c].parent].sorted[i] = o.c
  /\ IndexOrdered(ds, cs[o.c].parent)
  /\ ShownInOrder(ds, cs[o.c].parent)
  /\ Without(ds[cs[o.c].parent].sorted, o.c) = Without(cs[cs[o.c].parent].sorted, o.c)
  /\ Without(ds[cs[o.c].parent].dom["_controlsDiv"], o.c)
       = Without(cs[cs[o.c].parent].dom["_controlsDiv"], o.c)

\* C30: sorting is active on a parent and the order key of one child of
\* its sort index changes.  The child is moved in the sort index and in the
\* display to the position the sort direction gives it, the other children
\* keep their relative order, and no error is raised, also when a sibling
\* in the sort index has been instantiated but is not yet live.
C30_ResortSingle ==
  [][KeyChange(ctl, op') => (err' = "" /\ Reinserted(ctl, ctl', op'))]_vars

(***************************************************************************)
(* Filtering: a page whose control scripts are all loaded; the application *)
(* creates the children a and b of the top-level container, sets and       *)
(* clears filters that monitor rank, and changes the rank of the children. *)
(***************************************************************************)

\* {a: {controlType: "Mix", rank: r}} and {b: {controlType: "Mix", rank: r}}
FilterPayloads ==
  {Payload("", EmptyMap, n :> Payload("Mix", "rank" :> Num(r), EmptyMap, FALSE), FALSE) :
     n \in {"a", "b"}, r \in {0, 2}}

\* The ranks the application assigns.
Ranks == {Num(0), Num(1)}

InitFilter == TreeInit(Types)

NextFilter ==
  \/ \E p \in FilterPayloads :
       /\ DOMAIN p.kids \cap DOMAIN ctl[1].controls = {}
       /\ \A i \in DOMAIN timers : timers[i].name \notin DOMAIN p.kids
       /\ SetCall(1, p)
  \/ \E f \in FilterFunctions :
       ctl[1].filterFunction # f /\ FilterCall(1, f, TRUE, <<"rank">>)
  \/ ctl[1].filterFunction # "" /\ FilterCall(1, "", FALSE, <<>>)
  \/ \E c \in DOMAIN ctl : \E v \in Ranks :
       ctl[c].reactive /\ ctl[c].init /\ AssignCall(c, "rank", v)
  \/ TimerFire
  \/ \E c \in DOMAIN ctl : ObserverFire(c)

SpecFilter == InitFilter /\ [][NextFilter]_vars

(***************************************************************************)
(* Claims about filtering (checked under SpecFilter).                      *)
(***************************************************************************)

\* The display state of control c
Hidden(cs, c) == cs[c].display = JsToString(cs[c].props["hiddenDisplayCss"])
Shown(cs, c) == cs[c].display = JsToString(cs[c].props["visibleDisplayCss"])

\* Property k is in the monitor list of control p
Monitored(cs, p, k) == \E i \in DOMAIN cs[p].filterMonitor : cs[p].filterMonitor[i] = k

\* C5: a parent has a filter predicate and a monitor list.  A live child for
\* which the predicate is false is hidden when the filter is set; when a
\* monitored property of a hidden live child is changed so that the
\* predicate becomes true, the child is shown by that assignment, whether it
\* was created before or after the filter was set.
C5_MonitoredChangeShows ==
  [][/\ (op'.kind = "filter" /\ err' = "" /\ ctl'[op'.c].filterFunction # "") =>
          \A n \in DOMAIN ctl'[op'.c].controls :
            (/\ ctl'[ctl'[op'.c].controls[n]].init
             /\ ~FilterHolds(ctl'[op'.c].filterFunction, ctl', ctl'[op'.c].controls[n]))
              => Hidden(ctl', ctl'[op'.c].controls[n])
     /\ (/\ op'.kind = "assign"
         /\ ctl[op'.c].parent # 0
         /\ ctl[op'.c].init
         /\ ctl[ctl[op'.c].parent].filterFunction # ""
         /\ Monitored(ctl, ctl[op'.c].parent, op'.ev)
         /\ ~FilterHolds(ctl[ctl[op'.c].parent].filterFunction, ctl, op'.c)
         /\ Hidden(ctl, op'.c)
         /\ FilterHolds(ctl[ctl[op'.c].parent].filterFunction, ctl', op'.c)) =>
          Shown(ctl', op'.c)]_vars

\* The filter subscriptions control c holds for event k: the positions of
\* the filter callbacks among the callbacks of k.
FilterSubscriptions(cs, c, k) ==
  {r \in Registrations(cs, c) :
     r[1] = k /\ cs[c].events[k].cbs[r[2]].fn.kind \in {"filter", "filterLive"}}

\* Every child of p has one filter subscription for every monitored name
\* and none for any other name.
OnePerMonitor(cs, p) ==
  \A n \in DOMAIN cs[p].controls : \A k \in PropNames :
    Cardinality(FilterSubscriptions(cs, cs[p].controls[n], k))
      = IF Monitored(cs, p, k) THEN 1 ELSE 0

\* C33: after filter(f, {monitor: M}) on a parent every child has exactly
\* one filter subscription for every name of M and none for another name;
\* a later change of a property of M on a live child evaluates the
\* predicate passed to filter most recently, and shows the child if it
\* holds and hides it if not.
C33_MonitorUsesLatestPredicate ==
  [][/\ (op'.kind = "filter" /\ op'.ev # "" /\ err' = "") => OnePerMonitor(ctl', op'.c)
     /\ (/\ op'.kind = "assign"
         /\ ctl[op'.c].parent # 0
         /\ ctl[op'.c].init
         /\ ctl[ctl[op'.c].parent].filterFunction # ""
         /\ Monitored(ctl, ctl[op'.c].parent, op'.ev)
         /\ ctl[op'.c].props[op'.ev] # op'.val) =>
          IF FilterHolds(ctl[ctl[op'.c].parent].filterFunction, ctl', op'.c)
          THEN Shown(ctl', op'.c) ELSE Hidden(ctl', op'.c)]_vars

(***************************************************************************)
(* Clearing a filter: the page of SpecFilter, where a MutationObserver may *)
(* miss its notification, so that the application can set and clear the    *)
(* filter and assign ranks while a child is instantiated but not yet live. *)
(***************************************************************************)

\* {a: {controlType: "Mix", rank: 0}} and {b: {controlType: "Mix", rank: 2}}
UnfilterPayloads ==
  {Payload("", EmptyMap,
           n :> Payload("Mix", "rank" :> Num(IF n = "a" THEN 0 ELSE 2), EmptyMap, FALSE),
           FALSE) : n \in {"a", "b"}}

NextUnfilter ==
  \/ \E p \in UnfilterPayloads :
       /\ DOMAIN p.kids \cap DOMAIN ctl[1].controls = {}
       /\ \A i \in DOMAIN timers : timers[i].name \notin DOMAIN p.kids
       /\ SetCall(1, p)
  \/ ctl[1].filterFunction = "" /\ FilterCall(1, "rankPos", TRUE, <<"rank">>)
  \/ ctl[1].filterFunction # "" /\ FilterCall(1, "", FALSE, <<>>)
  \/ \E c \in DOMAIN ctl : \E v \in Ranks :
       ctl[c].reactive /\ AssignCall(c, "rank", v)
  \/ TimerFire
  \/ \E c \in DOMAIN ctl : ObserverFire(c)
  \/ \E c \in DOMAIN ctl : ObserverMiss(c)
  \/ \E c \in DOMAIN ctl : PollFire(c)

SpecUnfilter == InitFilter /\ [][NextUnfilter]_vars

\* No child of p has a filter subscription.
NoFilterSubscription(cs, p) ==
  \A n \in DOMAIN cs[p].controls : \A k \in PropNames :
    FilterSubscriptions(cs, cs[p].controls[n], k) = {}

\* C34: after filter() without arguments every child whose visible property
\* is true is displayed and no child has a filter subscription left, also a
\* child that was instantiated but not yet live when the filter was set; a
\* later change of a formerly monitored property changes the display state
\* of no child.
C34_ClearedFilterIsGone ==
  [][/\ (op'.kind = "filter" /\ op'.ev = "") =>
          /\ err' = ""
          /\ NoFilterSubscription(ctl', op'.c)
          /\ \A n \in DOMAIN ctl'[op'.c].controls :
               Truthy(ctl'[ctl'[op'.c].controls[n]].props["visible"]) =>
                 Shown(ctl', ctl'[op'.c].controls[n])
     /\ (/\ op'.kind = "assign" /\ op'.ev = "rank"
         /\ ctl[op'.c].parent # 0
         /\ ctl[ctl[op'.c].parent].filterFunction = ""
         /\ ctl[ctl[op'.c].parent].filterMonitor = <<>>) =>
          \A c \in DOMAIN ctl : ctl'[c].display = ctl[c].display]_vars

(***************************************************************************)
(* Visibility and filtering: a page whose control scripts are all loaded;  *)
(* the application creates the child a of the top-level container, sets    *)
(* and clears a filter that monitors rank, and assigns the rank and the    *)
(* visible property of the child.                                          *)
(***************************************************************************)

\* {a: {controlType: "Mix", rank: r}}
VisiblePayloads ==
  {Payload("", EmptyMap, "a" :> Payload("Mix", "rank" :> Num(r), EmptyMap, FALSE), FALSE) :
     r \in {0, 2}}

NextVisible ==
  \/ \E p \in VisiblePayloads :
       /\ Len(ctl) = 1 /\ timers = <<>>
       /\ SetCall(1, p)
  \/ ctl[1].filterFunction = "" /\ FilterCall(1, "rankPos", TRUE, <<"rank">>)
  \/ ctl[1].filterFunction # "" /\ FilterCall(1, "", FALSE, <<>>)
  \/ \E c \in DOMAIN ctl : \E v \in Ranks :
       ctl[c].reactive /\ ctl[c].init /\ AssignCall(c, "rank", v)
  \/ \E c \in DOMAIN ctl : \E v \in BOOLEAN :
       ctl[c].reactive /\ ctl[c].init /\ AssignCall(c, "visible", Bool(v))
  \/ TimerFire
  \/ \E c \in DOMAIN ctl : ObserverFire(c)

SpecVisible == InitFilter /\ [][NextVisible]_vars

\* Control c may be displayed: its visible property is true and the filter
\* of its parent, if there is one, holds for it.
MayShow(cs, c) ==
  /\ Truthy(cs[c].props["visible"])
  /\ \/ cs[cs[c].parent].filterFunction = ""
     \/ FilterHolds(cs[cs[c].parent].filterFunction, cs, c)

\* C35: in every state a live child is displayed only if its visible
\* property is true and the filter predicate of its parent, if a filter is
\* active, holds for it; this also holds after visible has been set and
\* after a monitored property has changed.
C35_ShownOnlyIfVisibleAndFiltered ==
  \A c \in DOMAIN ctl :
    (ctl[c].parent # 0 /\ ctl[c].init /\ Shown(ctl, c)) => MayShow(ctl, c)

(***************************************************************************)
(* Life cycle: the application creates a child a of the top-level          *)
(* container, renames and removes controls with Set, and subscribes        *)
(* listener L1 to event x of the top-level container with the option       *)
(* {caller: a}, and a listener that inspects a to the remove event of a.   *)
(***************************************************************************)

\* {a: {controlType: "Mix"}}
LifePayloads ==
  {Payload("", EmptyMap, "a" :> Payload("Mix", EmptyMap, EmptyMap, FALSE), FALSE)}

\* {name: n} and {remove: true}
RenamePayloads == {Payload("", "name" :> Str(n), EmptyMap, FALSE) : n \in {"a", "z"}}
RemovePayloads == {Payload("", EmptyMap, EmptyMap, TRUE)}

\* The registrations of event ev on control c.
Callbacks(cs, c, ev) == IF ev \in DOMAIN cs[c].events THEN cs[c].events[ev].cbs ELSE <<>>

\* The most registrations of one event the application keeps.
MaxReg == 2

\* The function objects and DispatcherEvents created in the life of the page.
MaxLifeFn == 26

\* The listener functions of the application exist before the page is built.
InitLife ==
  /\ cls = {"ui"} \cup Types
  /\ pendingScripts = [r \in Roots |-> {}]
  /\ scriptWaiters = [r \in Roots |-> [n \in Types |-> <<>>]]
  /\ loads = <<>>
  /\ reqs = <<>>
  /\ ctl = <<TopLevelContainer>>
  /\ timers = <<>>
  /\ fnc = NumListeners
  /\ log = <<>>
  /\ err = ""
  /\ op = NoOp

NextLife ==
  \/ \E p \in LifePayloads : Len(ctl) = 1 /\ timers = <<>> /\ SetCall(1, p)
  \/ \E c \in DOMAIN ctl : \E p \in RenamePayloads :
       ctl[c].key = "a" /\ ctl[c].removed = 0 /\ SetCall(c, p)
  \/ \E c \in DOMAIN ctl : \E p \in RemovePayloads : ctl[c].removed = 0 /\ SetCall(c, p)
  \/ \E c \in DOMAIN ctl : \E once \in BOOLEAN :
       /\ ctl[c].key = "a" /\ ctl[c].removed = 0
       /\ Len(Callbacks(ctl, 1, "x")) < MaxReg /\ fnc < MaxLifeFn
       /\ OnListenerCall(1, "x", AppListener(1), once, c)
  \/ \E c \in DOMAIN ctl :
       /\ ctl[c].key = "a" /\ ctl[c].removed = 0 /\ fnc < MaxLifeFn
       /\ \A i \in DOMAIN Callbacks(ctl, c, "remove") :
            Callbacks(ctl, c, "remove")[i].fn.kind # "probe"
       /\ ProbeCall(c)
  \/ OffCall(1, "x", 1)
  \/ EmitCall(1, "x", "local")
  \/ \E n \in {"a", "z"} : RemoveChildCall(1, n)
  \/ TimerFire
  \/ \E c \in DOMAIN ctl : ObserverFire(c)

SpecLife == InitLife /\ [][NextLife]_vars

(***************************************************************************)
(* Claims about the life cycle (checked under SpecLife).                   *)
(***************************************************************************)

\* C12: Set({remove: true}) on a control without parent (the root) is a
\* no-op: no error is raised across the call, and the tree, the child maps
\* and the registrations are unchanged.
C12_RootRemoveIsNoOp ==
  [][(op'.kind = "Set" /\ op'.p.remove /\ ctl[op'.c].parent = 0) =>
       /\ err' = ""
       /\ ctl' = ctl]_vars

\* C14: every child stored in a child map under key k has name k in every
\* state, whatever payloads Set has applied (a name key included), so that
\* Set({remove: true}) on the child removes the entry stored under k.
C14_NameIsKey ==
  [][/\ \A p \in DOMAIN ctl' : \A k \in DOMAIN ctl'[p].controls :
          ctl'[ctl'[p].controls[k]].props["name"] = Str(k)
     /\ \A p \in DOMAIN ctl : \A k \in DOMAIN ctl[p].controls :
          (op'.kind = "Set" /\ op'.p.remove /\ op'.c = ctl[p].controls[k]) =>
            k \notin DOMAIN ctl'[p].controls]_vars

\* The listeners subscribed with the option {caller: c}: the closures
\* registered on the remove event of c hold the control, the event name and
\* the listener.
BoundTo(cs, c) ==
  {f \in {Callbacks(cs, c, "remove")[i].fn : i \in DOMAIN Callbacks(cs, c, "remove")} :
     f.kind = "autoOff"}

\* Listener f is registered for event ev on control x.
Registered(cs, x, ev, f) ==
  \E i \in DOMAIN Callbacks(cs, x, ev) : Callbacks(cs, x, ev)[i].fn.id = f

\* C18: when a control C is removed with RemoveChild, every listener that
\* was registered on a control X with on or once and {caller: C} is no
\* longer registered on X (so that no later emit on X invokes it), and the
\* removal raises no error, also when the listener had been unregistered
\* before or X has no registration left for the event name.
C18_CallerRemovalUnsubscribes ==
  [][(op'.kind = "RemoveChild" /\ op'.ev \in DOMAIN ctl[op'.c].controls) =>
       /\ err' = ""
       /\ ctl'[ctl[op'.c].controls[op'.ev]].removed # 0
       /\ \A f \in BoundTo(ctl, ctl[op'.c].controls[op'.ev]) :
            ~Registered(ctl', f.c, f.ev, f.f)]_vars

\* What the listeners that inspect control c have seen in the task that
\* left log l.
SeenOf(l, c) == {i \in DOMAIN l : l[i].kind = "seen" /\ l[i].c = c}

\* C28: RemoveChild detaches the display region of the control, then fires
\* remove on it, then deletes it from the child map and from the name-indexed
\* reference, then clears its registrations: a callback of the remove event
\* sees the display region detached and the control still in the parent's
\* child map, and after a removal without error the region is detached, the
\* control is in neither map and it holds no registration.
C28_DetachThenRemoveEvent ==
  [][(op'.kind = "RemoveChild" /\ op'.ev \in DOMAIN ctl[op'.c].controls) =>
       /\ \A i \in SeenOf(log', ctl[op'.c].controls[op'.ev]) :
            /\ log'[i].ev = "detached"
            /\ log'[i].data.v = Bool(TRUE)
       /\ err' = "" =>
            /\ Host(ctl', ctl[op'.c].controls[op'.ev]) = 0
            /\ op'.ev \notin DOMAIN ctl'[op'.c].controls
            /\ op'.ev \notin DOMAIN ctl'[op'.c].refs
            /\ Registrations(ctl', ctl[op'.c].controls[op'.ev]) = {}]_vars

(***************************************************************************)
(* Firing: the application registers its listeners L1..L6 for event x of   *)
(* the top-level container, unregisters them, clears and emits; the        *)
(* listeners themselves register, unregister, clear and emit while x is    *)
(* being fired.                                                            *)
(***************************************************************************)

\* The most registrations of x the application makes itself, and the
\* function objects and DispatcherEvents it creates.
MaxFireReg == 4
MaxFireFn == 8

NextFire ==
  \/ \E i \in 1..NumListeners : \E once \in BOOLEAN :
       /\ once => i = 1
       /\ Len(Callbacks(ctl, 1, "x")) < MaxFireReg /\ fnc < MaxFireFn
       /\ OnListenerCall(1, "x", AppListener(i), once, 0)
  \/ \E i \in 1..NumListeners : OffCall(1, "x", i)
  \/ ClearEventsCall(1)
  \/ Len(Callbacks(ctl, 1, "x")) <= MaxFireReg /\ EmitCall(1, "x", "local")

SpecFire == InitLife /\ [][NextFire]_vars

(***************************************************************************)
(* Claims about firing (checked under SpecFire).                           *)
(***************************************************************************)

\* The identities of the functions invoked in a log, in order.
Invocations(lg) ==
  LET inv == SelectSeq(lg, LAMBDA e : e.fn # 0)
  IN [i \in DOMAIN inv |-> inv[i].fn]

\* How often function f was invoked in a log.
Times(lg, f) == Cardinality({i \in DOMAIN lg : lg[i].fn = f})

\* The positions of the registrations of function f in a callback list,
\* all of them or those made with on.
EntriesOf(cbs, f) == {i \in DOMAIN cbs : cbs[i].fn.id = f}
PersistentOf(cbs, f) == {i \in DOMAIN cbs : cbs[i].fn.id = f /\ ~cbs[i].once}

\* A listener of the list registers function f again when it is invoked;
\* a listener of the list unregisters f, or everything, when it is invoked;
\* a listener of the list emits when it is invoked.
Reregisters(cbs, f) ==
  \E i \in DOMAIN cbs : cbs[i].fn.kind \in {"obsOn", "obsOnce"} /\ cbs[i].fn.f = f
Unregisters(cbs, f) ==
  \E i \in DOMAIN cbs : \/ cbs[i].fn.kind \in {"obsOff", "obsEmit"} /\ cbs[i].fn.f = f
                        \/ cbs[i].fn.kind = "obsClear"
Reemits(cbs) == \E i \in DOMAIN cbs : cbs[i].fn.kind = "obsEmit"

\* C15: a callback registered with once(name, cb) (once, and not registered
\* again by the application) is invoked exactly once by an emit of name
\* that returns, also when name is emitted again from inside a callback
\* while it is being fired, and is not registered afterwards.
C15_OnceFiresOnce ==
  [][(op'.kind = "emit" /\ err' = "") =>
       \A f \in 1..NumListeners :
         (/\ Cardinality(EntriesOf(Callbacks(ctl, op'.c, op'.ev), f)) = 1
          /\ PersistentOf(Callbacks(ctl, op'.c, op'.ev), f) = {}
          /\ ~Reregisters(Callbacks(ctl, op'.c, op'.ev), f)) =>
           /\ Times(log', f) = 1
           /\ ~Registered(ctl', op'.c, op'.ev, f)]_vars

\* C16: a callback registered with on(name, cb) stays registered over every
\* call other than off and clearEvents, and is invoked by every emit of
\* name, whatever other registrations are made and fired, once
\* registrations of the same function included (the listeners that call
\* off for the callback or clearEvents are left aside).
C16_OnStaysRegistered ==
  [][(/\ op'.kind \in {"on", "once", "emit"} /\ err' = ""
      /\ ~Unregisters(Callbacks(ctl, op'.c, op'.ev), op'.val.n)) =>
       \A f \in 1..NumListeners :
         (/\ PersistentOf(Callbacks(ctl, op'.c, op'.ev), f) # {}
          /\ ~Unregisters(Callbacks(ctl, op'.c, op'.ev), f)
          /\ ~(op'.kind = "emit" /\ \E g \in 1..NumListeners :
                                      Unregisters(Callbacks(ctl, op'.c, op'.ev), g))) =>
           /\ PersistentOf(Callbacks(ctl', op'.c, op'.ev), f) # {}
           /\ op'.kind = "emit" => Times(log', f) >= 1]_vars

\* C17: emit(name) invokes every callback registered for name when the
\* firing starts exactly once, in registration order, and no other, also
\* when the callbacks call on, once, off or clearEvents for name during the
\* firing (the listeners that emit name themselves are left aside).
C17_SnapshotFiredInOrder ==
  [][(op'.kind = "emit" /\ ~Reemits(Callbacks(ctl, op'.c, op'.ev))) =>
       Invocations(log') =
         [i \in DOMAIN Callbacks(ctl, op'.c, op'.ev) |->
            Callbacks(ctl, op'.c, op'.ev)[i].fn.id]]_vars

(***************************************************************************)
(* Notifications: a page whose control scripts are all loaded, a child a   *)
(* of the top-level container and a child b of a; the application sets     *)
(* hideData, assigns rank and calls NotifyProperty.                        *)
(***************************************************************************)

\* The values the application assigns to rank.
NotifyValues == {Num(0), Num(1), Str("1")}

NextNotify ==
  \/ \E p \in CreatePayloads : Len(ctl) = 1 /\ timers = <<>> /\ SetCall(1, p)
  \/ \E c \in DOMAIN ctl : \E p \in HidePayloads : ctl[c].reactive /\ SetCall(c, p)
  \/ \E c \in DOMAIN ctl : \E v \in NotifyValues : ctl[c].reactive /\ AssignCall(c, "rank", v)
  \/ \E c \in DOMAIN ctl : ctl[c].reactive /\ NotifyCall(c, "rank")
  \/ TimerFire
  \/ \E c \in DOMAIN ctl : ObserverFire(c)

SpecNotify == InitProps /\ [][NextNotify]_vars

(***************************************************************************)
(* Claims about hideData and notifications (checked under SpecNotify).     *)
(***************************************************************************)

RECURSIVE Ancestors(_, _)
\* The proper ancestors of control c, and its descendants.
Ancestors(cs, c) ==
  IF cs[c].parent = 0 THEN {} ELSE {cs[c].parent} \cup Ancestors(cs, cs[c].parent)
Descendants(cs, c) == {d \in DOMAIN cs : c \in Ancestors(cs, d)}

RECURSIVE InGet(_, _, _, _)
\* The result g of Get on control a has an entry for control d, at any depth.
InGet(g, cs, a, d) ==
  \E k \in DOMAIN g.kids :
    cs[a].controls[k] = d \/ InGet(g.kids[k], cs, cs[a].controls[k], d)

\* The data events of a log, in order.
DataEvents(lg) == SelectSeq(lg, LAMBDA e : e.kind = "emit" /\ e.ev = "data")

\* A call that raises a notification in control op'.c: NotifyProperty, or a
\* direct assignment that changes a reactive property.
Notifies ==
  \/ op'.kind = "notify"
  \/ /\ op'.kind = "assign" /\ ctl[op'.c].reactive
     /\ ctl'[op'.c].props[op'.ev] # ctl[op'.c].props[op'.ev]

\* No control on the path from the root's child down to c has hideData set.
NoHideOnPath(cs, c) ==
  \A h \in {c} \cup Ancestors(cs, c) :
    cs[h].parent # 0 => ~Truthy(cs[h].props["hideData"])

RECURSIVE NamePath(_, _)
\* The names of the controls from the root's child down to c.
NamePath(cs, c) ==
  IF cs[c].parent = 0 THEN <<>>
  ELSE NamePath(cs, cs[c].parent) \o <<cs[c].props["name"]>>

\* C19: if control c has hideData true, Get() on every proper ancestor of c
\* has no entry for c or for a descendant of c, and no data notification
\* that originates from a property change or a NotifyProperty call in c or
\* in a descendant of c is delivered to a proper ancestor of c.
C19_HiddenSubtree ==
  [][/\ \A c \in DOMAIN ctl' :
          ctl'[c].props["hideData"] = Bool(TRUE) =>
            \A a \in Ancestors(ctl', c) : \A d \in {c} \cup Descendants(ctl', c) :
              \A sparse \in BOOLEAN : ~InGet(Get(ctl', a, sparse), ctl', a, d)
     /\ op'.kind \in {"assign", "notify", "Set"} =>
          \A h \in {op'.c} \cup Ancestors(ctl', op'.c) :
            ctl'[h].props["hideData"] = Bool(TRUE) =>
              \A i \in DOMAIN log' :
                log'[i].ev = "data" => log'[i].c \notin Ancestors(ctl', h)]_vars

\* C19 witness: rank was assigned or notified in a control at depth two
\* whose parent has hideData true; data was emitted on the control and on
\* its parent, not on the root, and Get() on the root has no entry for the
\* parent, which the root holds in its child map.
C19_Witness ==
  /\ op.kind \in {"assign", "notify"} /\ err = ""
  /\ ctl[op.c].parent # 0 /\ ctl[ctl[op.c].parent].parent # 0
  /\ ctl[ctl[op.c].parent].props["hideData"] = Bool(TRUE)
  /\ ctl[op.c].props["hideData"] = Bool(FALSE)
  /\ \E i \in DOMAIN log : log[i].ev = "data" /\ log[i].c = ctl[op.c].parent
  /\ \A i \in DOMAIN log : log[i].ev = "data" => ctl[log[i].c].parent # 0
  /\ \E k \in DOMAIN ctl[TreeRoot(ctl, op.c)].controls :
       ctl[TreeRoot(ctl, op.c)].controls[k] = ctl[op.c].parent
  /\ Get(ctl, TreeRoot(ctl, op.c), TRUE).kids = EmptyMap

\* C20 as stated: a notification raised in a control below the root with no
\* hideData on its path is delivered as one data event on the root, with
\* the payload nested along the control names from the root's child down to
\* the control, and no data event is emitted on the control itself or on an
\* intermediate ancestor.
C20_DataOnlyOnRoot ==
  [][(Notifies /\ ctl[op'.c].parent # 0 /\ NoHideOnPath(ctl', op'.c)) =>
       DataEvents(log') =
         <<[kind |-> "emit", c |-> TreeRoot(ctl', op'.c), ev |-> "data",
            data |-> [v |-> ctl'[op'.c].props[op'.ev], k |-> op'.ev,
                      path |-> NamePath(ctl', op'.c)],
            fn |-> 0]>>]_vars

RECURSIVE ChainData(_, _, _, _, _)
\* One data event per control from the root down to control c, the payload
\* of each wrapped in the names of the controls below it on the path to o.
ChainData(cs, c, o, k, v) ==
  (IF cs[c].parent = 0 THEN <<>> ELSE ChainData(cs, cs[c].parent, o, k, v))
  \o <<[kind |-> "emit", c |-> c, ev |-> "data",
        data |-> [v |-> v, k |-> k,
                  path |-> SubSeq(NamePath(cs, o), Len(NamePath(cs, c)) + 1,
                                  Len(NamePath(cs, o)))],
        fn |-> 0]>>

\* C20 amended: such a notification is delivered as a data event on the
\* root exactly once, with the payload nested along the control names from
\* the root's child down to the originating control; a data event is also
\* emitted once on every intermediate ancestor and on the originating
\* control, each with the payload nested along the names below that
\* control, in the order root first, originating control last.
C20_DataUpTheChain ==
  [][(Notifies /\ ctl[op'.c].parent # 0 /\ NoHideOnPath(ctl', op'.c)) =>
       /\ err' = ""
       /\ DataEvents(log') =
            ChainData(ctl', op'.c, op'.c, op'.ev, ctl'[op'.c].props[op'.ev])
       /\ DataEvents(log')[1].c = TreeRoot(ctl', op'.c)
       /\ DataEvents(log')[1].data.path = NamePath(ctl', op'.c)]_vars

\* C20 witness: a notification of rank raised in a control at depth two has
\* reached the root as a data event nested in the names of the control's
\* parent and of the control.
C20_Witness ==
  /\ op.kind \in {"assign", "notify"} /\ err = ""
  /\ ctl[op.c].parent # 0 /\ ctl[ctl[op.c].parent].parent # 0
  /\ NoHideOnPath(ctl, op.c)
  /\ Len(DataEvents(log)) = 3
  /\ DataEvents(log)[1].c = TreeRoot(ctl, op.c)
  /\ DataEvents(log)[1].data =
       [v |-> ctl[op.c].props["rank"], k |-> "rank",
        path |-> <<ctl[ctl[op.c].parent].props["name"], ctl[op.c].props["name"]>>]

(***************************************************************************)
(* Claims about the newChildControl event (checked under SpecEvents, where *)
(* the application assigns no property: a child differs from what its      *)
(* constructor left only by the payload Set has applied to it).            *)
(***************************************************************************)

\* The positions of a log at which newChildControl is dispatched.
NewChildEvents(l) ==
  {i \in DOMAIN l : l[i].kind = "emit" /\ l[i].ev = "newChildControl"}

\* The properties of control c as _createControl leaves them before
\* control.Set(c.data): the constructor's values and the name.
Constructed(cs, c) == [Defaults(cs[c].type) EXCEPT !["name"] = Str(cs[c].key)]

\* C21: when newChildControl is emitted on a parent for a child, the child
\* is in the parent's child map and Set() has not yet been applied to the
\* child with its creation data (the child's properties are still those of
\* its construction).
C21_NewChildBeforeSet ==
  [][\A i \in NewChildEvents(log') :
       /\ \E n \in DOMAIN ctl[log'[i].c].controls :
            ctl[log'[i].c].controls[n] = log'[i].data.v.n
       /\ ctl[log'[i].data.v.n].props = Constructed(ctl, log'[i].data.v.n)]_vars

(***************************************************************************)
(* Insertion: a page whose control scripts are all loaded; the application *)
(* asks the top-level container for the children a and b (b also as a      *)
(* child of a, or in the second container), and removes children, while    *)
(* the MutationObserver may fail to deliver and the fallback timer polls.  *)
(***************************************************************************)

\* {controlType: "Mix"}
PlainChild == Payload("Mix", EmptyMap, EmptyMap, FALSE)

\* {a: ka, b: kb} with ka = {controlType: "Mix"} or {controlType: "Mix",
\* remove: true} and kb = {controlType: "Mix"} or {controlType: "Mix",
\* parentElement: "_mainDiv"}, and {a: {controlType: "Mix", b: {controlType:
\* "Mix"}}}
InsertPayloads ==
  {Payload("", EmptyMap, ("a" :> ka) @@ ("b" :> kb), FALSE) :
     ka \in {PlainChild, Payload("Mix", EmptyMap, EmptyMap, TRUE)},
     kb \in {PlainChild,
             Payload("Mix", "parentElement" :> Str("_mainDiv"), EmptyMap, FALSE)}}
  \cup
  {Payload("", EmptyMap,
           "a" :> Payload("Mix", EmptyMap, "b" :> PlainChild, FALSE), FALSE)}

InitInsert == TreeInit(Types)

NextInsert ==
  \/ \E p \in InsertPayloads :
       /\ Len(ctl) = 1 /\ timers = <<>>
       /\ SetCall(1, p)
  \/ \E p \in DOMAIN ctl : \E n \in {"a", "b"} :
       n \in DOMAIN ctl[p].controls /\ RemoveChildCall(p, n)
  \/ TimerFire
  \/ \E c \in DOMAIN ctl : ObserverFire(c)
  \/ \E c \in DOMAIN ctl : ObserverMiss(c)
  \/ \E c \in DOMAIN ctl : PollFire(c)

SpecInsert == InitInsert /\ [][NextInsert]_vars

(***************************************************************************)
(* Creation queue: a page without control scripts; the application asks    *)
(* the top-level container for the children a and b, whose class is        *)
(* fetched on demand.                                                      *)
(***************************************************************************)

\* {a: {controlType: "Mix"}} and {b: {controlType: "Mix"}}
QueuePayloads == {Payload("", EmptyMap, n :> PlainChild, FALSE) : n \in {"a", "b"}}

NextQueue ==
  \/ \E p \in QueuePayloads : Len(reqs) < MaxCreateReq /\ SetCall(1, p)
  \/ TimerFire
  \/ \E l \in DOMAIN loads : LoaderTask(FetchOk(l))
  \/ \E l \in DOMAIN loads : LoaderTask(FetchFail(l))
  \/ \E l \in DOMAIN loads : LoaderTask(StartScript(l))
  \/ \E l \in DOMAIN loads : LoaderTask(ScriptLoaded(l))
  \/ \E l \in DOMAIN loads : LoaderTask(ScriptError(l))
  \/ \E p \in DOMAIN ctl : ResumeDriver(p)
  \/ \E c \in DOMAIN ctl : ObserverFire(c)

SpecQueue == InitCreate /\ [][NextQueue]_vars

(***************************************************************************)
(* Claims about the creation queue (checked under SpecQueue).              *)
(***************************************************************************)

\* The children of p that a step from cs to ds instantiates, in the order of
\* their instantiation.
NewChildren(cs, ds, p) ==
  SelectSeq([i \in 1..(Len(ds) - Len(cs)) |-> Len(cs) + i], LAMBDA c : ds[c].parent = p)

\* Sequence s is the end of sequence q.
IsSuffix(s, q) ==
  /\ Len(s) <= Len(q)
  /\ \A i \in DOMAIN s : s[i] = q[Len(q) - Len(s) + i]

\* The requests of queue q that a step has dequeued when it leaves queue s.
Dequeued(q, s) == SubSeq(q, 1, Len(q) - Len(s))

\* Sequence ns of names follows the order of the requests rs: the names are
\* those of requests at increasing positions.
RECURSIVE InOrderOf(_, _)
InOrderOf(ns, rs) ==
  \/ ns = <<>>
  \/ /\ rs # <<>>
     /\ \/ ns[1] = rs[1].name /\ InOrderOf(Tail(ns), Tail(rs))
        \/ InOrderOf(ns, Tail(rs))

\* The queue a step works on: the queue it finds, and behind it the request
\* the step itself enqueues (a call of _createControl).
Worked(p) ==
  ctl[p].queue \o (IF op'.kind = "timer" /\ op'.c = p
                   THEN <<[data |-> op'.p, name |-> op'.ev]>> ELSE <<>>)

\* C24: per parent at most one creation request is in process, also while it
\* awaits the resolution of its module: a call of _createControl that finds
\* a request in the queue only enqueues its own; a suspended driver waits
\* for the module of the request at the head of the queue; requests leave
\* the queue at its head only, and the children a step instantiates are those
\* of dequeued requests, in the order in which they were enqueued.
C24_SingleFlight ==
  [][\A p \in DOMAIN ctl :
       /\ IsSuffix(ctl'[p].queue, Worked(p))
       /\ (op'.kind = "timer" /\ op'.c = p /\ ctl[p].queue # <<>>) =>
            /\ ctl'[p].queue = Worked(p)
            /\ ctl'[p].driver = ctl[p].driver
            /\ NewChildren(ctl, ctl', p) = <<>>
       /\ ctl'[p].driver # 0 =>
            /\ ctl'[p].queue # <<>>
            /\ reqs'[ctl'[p].driver].name = ctl'[p].queue[1].data.controlType
       /\ InOrderOf([i \in DOMAIN NewChildren(ctl, ctl', p) |->
                       ctl'[NewChildren(ctl, ctl', p)[i]].key],
                    Dequeued(Worked(p), ctl'[p].queue))]_vars

\* A driver that was suspended with the requests for b and for a in its
\* queue has continued and instantiated b and then a.
C24_Witness ==
  /\ op.kind = "resume"
  /\ Len(ctl) = 3
  /\ ctl[1].queue = <<>>
  /\ ctl[2].key = "b" /\ ~ctl[2].init
  /\ ctl[3].key = "a" /\ ~ctl[3].init

(***************************************************************************)
(* Progress of the creation queue: the page of SpecQueue, where the        *)
(* browser goes on running what is ready to run: fetches and script        *)
(* elements report success or failure, timers fire, awaited promises       *)
(* continue and observers deliver.                                         *)
(***************************************************************************)

\* A step of the network or of a script element.
NetworkStep ==
  \/ \E l \in DOMAIN loads : LoaderTask(FetchOk(l))
  \/ \E l \in DOMAIN loads : LoaderTask(FetchFail(l))
  \/ \E l \in DOMAIN loads : LoaderTask(StartScript(l))
  \/ \E l \in DOMAIN loads : LoaderTask(ScriptLoaded(l))
  \/ \E l \in DOMAIN loads : LoaderTask(ScriptError(l))

\* A step of the event loop on a control tree: a creation timer, the
\* continuation of a driver, or the delivery of an observer.
EngineStep ==
  \/ TimerFire
  \/ \E p \in DOMAIN ctl : ResumeDriver(p)
  \/ \E c \in DOMAIN ctl : ObserverFire(c)

\* ENABLED EngineStep, from the guards of its three actions.
EngineReady ==
  \/ ~MicroPending /\ timers # <<>>
  \/ \E p \in DOMAIN ctl : DriverReady(p)
  \/ \E c \in DOMAIN ctl : ctl[c].observer.state = "fired"

\* <<EngineStep>>_vars, from the record of the step taken.
EngineMoved == op'.kind \in {"timer", "resume", "htmlInit"}

\* WF_vars(EngineStep) written out: the event loop is not ready forever
\* without taking a step.
EngineFair == []<>(~EngineReady) \/ []<><<EngineMoved>>_vars

SpecQueueLive == SpecQueue /\ WF_vars(NetworkStep) /\ EngineFair

\* Every resolution request that was issued is resolved.
AllResolved == \A i \in DOMAIN reqs : reqs[i].state = "resolved"

LifeRank(cs, c) ==
  IF c \notin DOMAIN cs THEN 2
  ELSE IF cs[c].removed # 0 THEN 6
  ELSE IF cs[c].init THEN 5
  ELSE IF Host(cs, c) # 0 THEN 4
  ELSE 3

\* The Init hook of control c has run in the task that left log l (_htmlInit
\* emits init right after it).
InitRun(l, c) == \E i \in DOMAIN l : l[i].kind = "emit" /\ l[i].ev = "init" /\ l[i].c = c

\* C22: the life-cycle state of every control only moves forward
\* (instantiated, bound, live, removed); a control is removed only when it is
\* bound or live; and once a control has been removed, its display region is
\* in no container, its Init hook is not run and its live flag is not set.
C22_LifecycleForward ==
  [][\A c \in DOMAIN ctl' :
       /\ LifeRank(ctl, c) <= LifeRank(ctl', c)
       /\ (LifeRank(ctl', c) = 6 /\ LifeRank(ctl, c) # 6) => LifeRank(ctl, c) \in {4, 5}
       /\ LifeRank(ctl, c) = 6 =>
            /\ Host(ctl', c) = 0
            /\ ~InitRun(log', c)
            /\ ctl'[c].init = ctl[c].init]_vars

\* The display region of control c is inside its destination container (the
\* element of its parent that its parentElement names) and in the document.
InPlace(cs, c) ==
  /\ Host(cs, c) = cs[c].parent
  /\ HostElement(cs, c) = JsToString(cs[c].props["parentElement"])
  /\ InDocument(cs, c)

\* The controls that a step marks live.
MarkedLive(cs, ds) == {c \in DOMAIN ds : ds[c].init /\ (c \in DOMAIN cs => ~cs[c].init)}

\* C23: whenever a control is marked live, its display region is at that
\* moment inside its destination container in the document and its Init hook
\* has run.
C23_LiveIsDisplayed ==
  [][\A c \in MarkedLive(ctl, ctl') :
       /\ c \in DOMAIN ctl
       /\ InPlace(ctl, c)
       /\ InitRun(log', c)]_vars

\* this._htmlElementQueue[el] of control p (empty when there is none).
ElementQueue(cs, p, el) ==
  IF HasPair(cs[p].htmlElementQueue, el) THEN Lookup(cs[p].htmlElementQueue, el) ELSE <<>>

\* The controls that _addHtml of p has taken for element el and that await
\* confirmation: the observer or the fallback timer is still active.
Awaiting(cs, p, el) ==
  {c \in DOMAIN cs : /\ cs[c].parent = p /\ cs[c].pollElement = el
                     /\ ~cs[c].init
                     /\ (cs[c].polling \/ cs[c].observer.state # "none")}

\* The controls of queue q that queue r still holds, in the order of q.
Kept(q, r) == SelectSeq(q, LAMBDA c : \E i \in DOMAIN r : r[i] = c)

\* C25: for each parent and container at most one control awaits
\* confirmation and it is the head of the container's queue; the queue is
\* left at the head and entered at the tail, and a control is marked live
\* only as the head of its queue, so the controls of one container become
\* live in the order in which they were queued.
C25_HeadOnly ==
  [][\A p \in DOMAIN ctl' : \A el \in Containers :
       /\ Cardinality(Awaiting(ctl', p, el)) <= 1
       /\ \A c \in Awaiting(ctl', p, el) :
            ElementQueue(ctl', p, el) # <<>> /\ ElementQueue(ctl', p, el)[1] = c
       /\ \A c \in MarkedLive(ctl, ctl') :
            (ctl'[c].parent = p /\ ctl'[c].pollElement = el) =>
              /\ c \in DOMAIN ctl
              /\ ElementQueue(ctl, p, el) # <<>> /\ ElementQueue(ctl, p, el)[1] = c
       /\ p \in DOMAIN ctl =>
            /\ IsSuffix(Kept(ElementQueue(ctl, p, el), ElementQueue(ctl', p, el)),
                        ElementQueue(ctl, p, el))
            /\ SubSeq(ElementQueue(ctl', p, el), 1,
                      Len(Kept(ElementQueue(ctl, p, el), ElementQueue(ctl', p, el))))
                 = Kept(ElementQueue(ctl, p, el), ElementQueue(ctl', p, el))]_vars

\* Child b was queued behind child a for the same container while a awaited
\* confirmation; the fallback poll has finalized a, and b, now the head of
\* the queue, has been inserted and awaits confirmation.
C25_Witness ==
  /\ op.kind = "poll"
  /\ Len(ctl) = 3
  /\ ctl[2].key = "a" /\ ctl[2].init /\ ctl[2].removed = 0
  /\ ctl[3].key = "b" /\ ctl[3].parent = 1
  /\ ElementQueue(ctl, 1, "_controlsDiv") = <<3>>
  /\ Awaiting(ctl, 1, "_controlsDiv") = {3}

\* The times _htmlInit has run for control c in the task that left log l.
Finalizations(l, c) ==
  Cardinality({i \in DOMAIN l : l[i].kind = "emit" /\ l[i].ev = "init" /\ l[i].c = c})

\* C26: a control is finalized (bindings, Init hook, live flag, init and
\* newChildControl events, queue advance) at most once: a finalization
\* happens to a control that was not finalized before, once in the step, and
\* leaves neither its observer nor its fallback timer active; they stay
\* inactive in every later state, and an entry leaves a container's queue
\* only in the step that finalizes it.
C26_FinalizedOnce ==
  [][\A c \in DOMAIN ctl' :
       /\ Finalizations(log', c) <= 1
       /\ Finalizations(log', c) = 1 => c \in DOMAIN ctl /\ ~ctl[c].init
       /\ ctl'[c].init => ctl'[c].observer.state = "none" /\ ~ctl'[c].polling
       /\ \A el \in Containers :
            (c \in DOMAIN ctl
             /\ Len(ElementQueue(ctl', c, el)) < Len(ElementQueue(ctl, c, el))) =>
              /\ Len(ElementQueue(ctl', c, el)) = Len(ElementQueue(ctl, c, el)) - 1
              /\ Finalizations(log', ElementQueue(ctl, c, el)[1]) = 1]_vars

\* The observation signal of child a was lost and the fallback poll has
\* finalized a: a is live, its observer is disconnected and its timer is
\* stopped.
C26_Witness ==
  /\ op.kind = "poll"
  /\ Len(ctl) >= 2
  /\ ctl[2].init /\ InitRun(log, 2)
  /\ ctl[2].observer.state = "none" /\ ~ctl[2].polling

\* The insertion of control c has been given up: the poll counter is deleted
\* and the control was not initialised.
Abandoned(cs, c) == cs[c].elementPollCounter = NaN /\ ~cs[c].init

\* C27: when the fallback poll of a control does not find the control's
\* display region in the document for the tenth time (nine polls have failed
\* before, and no observation signal has finalized the control), the attempt
\* is abandoned: the observer is disconnected, the timer is stopped, the Init
\* hook is not run; from then on the control stays abandoned, its Init hook
\* is never run and it is never live.
C27_AbandonAfterTenPolls ==
  [][\A c \in DOMAIN ctl :
       /\ (op'.kind = "poll" /\ op'.c = c /\ ctl[c].elementPollCounter = 9
           /\ ~InDocument(ctl, c)) =>
            /\ ctl'[c].observer.state = "none"
            /\ ~ctl'[c].polling
            /\ Abandoned(ctl', c)
       /\ Abandoned(ctl, c) =>
            /\ Abandoned(ctl', c)
            /\ ~InitRun(log', c)
            /\ ctl'[c].observer.state = "none" /\ ~ctl'[c].polling]_vars

\* The tenth poll of a control has not found its display region: the
\* attempt has been abandoned.
C27_Witness ==
  /\ op.kind = "poll"
  /\ Abandoned(ctl, op.c)
  /\ ctl[op.c].observer.state = "none" /\ ~ctl[op.c].polling

(***************************************************************************)
(* Containers and sorting: a page whose control scripts are all loaded;    *)
(* the application may set the order key of the top-level container and    *)
(* asks it for the children a and b, each with a rank and each for the     *)
(* default container or for the second one.                                *)
(***************************************************************************)

\* {controlType: "Mix", rank: r} and {controlType: "Mix", rank: r,
\* parentElement: "_mainDiv"}
Ranked(r) ==
  {Payload("Mix", "rank" :> Num(r), EmptyMap, FALSE),
   Payload("Mix", ("rank" :> Num(r)) @@ ("parentElement" :> Str("_mainDiv")), EmptyMap, FALSE)}

\* {a: ka, b: kb}
PlacePayloads ==
  {Payload("", EmptyMap, ("a" :> ka) @@ ("b" :> kb), FALSE) :
     ka \in Ranked(2), kb \in Ranked(1)}

NextPlace ==
  \/ \E p \in PlacePayloads :
       /\ Len(ctl) = 1 /\ timers = <<>>
       /\ SetCall(1, p)
  \/ ctl[1].props["orderBy"] = Str("") /\ Len(ctl) = 1 /\ timers = <<>>
       /\ AssignCall(1, "orderBy", Str("rank"))
  \/ TimerFire
  \/ \E c \in DOMAIN ctl : ObserverFire(c)
  \/ \E c \in DOMAIN ctl : ObserverMiss(c)
  \/ \E c \in DOMAIN ctl : PollFire(c)

SpecPlace == InitSort /\ [][NextPlace]_vars

\* Control c is a child whose parentElement names a container other than
\* the default one.
ElsewhereChild(cs, c) ==
  /\ cs[c].parent # 0
  /\ cs[c].props["parentElement"] # Str("_controlsDiv")

\* The element of control c is in the container of its parent that its
\* parentElement names.
InOwnContainer(cs, c) ==
  \E i \in DOMAIN cs[cs[c].parent].dom[JsToString(cs[c].props["parentElement"])] :
    cs[cs[c].parent].dom[JsToString(cs[c].props["parentElement"])][i] = c

\* Control c is the first control of the queue of its container.
HeadOfQueue(cs, c) ==
  /\ HasPair(cs[cs[c].parent].htmlElementQueue, JsToString(cs[c].props["parentElement"]))
  /\ Lookup(cs[cs[c].parent].htmlElementQueue, JsToString(cs[c].props["parentElement"])) # <<>>
  /\ Lookup(cs[cs[c].parent].htmlElementQueue, JsToString(cs[c].props["parentElement"]))[1] = c

\* C31: a child whose parentElement names another container than the
\* default one is never in the sort index of its parent, and, with sorting
\* active on the parent or not, its element is in that container from the
\* moment the child is the first of the container's queue.
C31_OnlyDefaultContainerSorts ==
  \A c \in DOMAIN ctl :
    ElsewhereChild(ctl, c) =>
      /\ \A i \in DOMAIN ctl[ctl[c].parent].sorted : ctl[ctl[c].parent].sorted[i] # c
      /\ (HeadOfQueue(ctl, c) \/ ctl[c].init) => InOwnContainer(ctl, c)

(***************************************************************************)
(* Deactivating sorting: a page whose control scripts are all loaded; the  *)
(* application asks the top-level container for the child a, with or       *)
(* without an order key, and its child b, and then changes the order key   *)
(* and the direction of a and the rank of b, while b may still wait for    *)
(* its initialisation.                                                     *)
(***************************************************************************)

\* {a: {controlType: "Mix", b: {controlType: "Mix", rank: 1}}}, a with or
\* without orderBy: "rank"
UnsortPayloads ==
  {Payload("", EmptyMap,
           "a" :> Payload("Mix", ps, "b" :> Payload("Mix", "rank" :> Num(1), EmptyMap, FALSE),
                          FALSE),
           FALSE) : ps \in {EmptyMap, "orderBy" :> Str("rank")}}

NextUnsort ==
  \/ \E p \in UnsortPayloads :
       /\ Len(ctl) = 1 /\ timers = <<>>
       /\ SetCall(1, p)
  \/ \E c \in DOMAIN ctl : \E v \in {Str(""), Str("rank")} :
       ctl[c].key = "a" /\ ctl[c].props["orderBy"] # v /\ AssignCall(c, "orderBy", v)
  \/ \E c \in DOMAIN ctl : \E v \in BOOLEAN :
       ctl[c].key = "a" /\ ctl[c].props["orderAsc"] # Bool(v)
       /\ AssignCall(c, "orderAsc", Bool(v))
  \/ \E c \in DOMAIN ctl : \E v \in {Num(0), Num(3)} :
       ctl[c].key = "b" /\ AssignCall(c, "rank", v)
  \/ TimerFire
  \/ \E c \in DOMAIN ctl : ObserverFire(c)
  \/ \E c \in DOMAIN ctl : ObserverMiss(c)
  \/ \E c \in DOMAIN ctl : PollFire(c)

SpecUnsort == InitSort /\ [][NextUnsort]_vars

\* The sort subscriptions control c holds: event name and position.
SortSubscriptions(cs, c) ==
  {r \in Registrations(cs, c) : cs[c].events[r[1]].cbs[r[2]].fn.kind = "sort"}

\* The order key of control p is empty, its sort index is empty and none of
\* its children has a sort subscription.
Unsorted(cs, p) ==
  /\ cs[p].sorted = <<>>
  /\ \A n \in DOMAIN cs[p].controls : SortSubscriptions(cs, cs[p].controls[n]) = {}

\* C32: once the order key of a parent has been set back to empty, its sort
\* index is empty and none of its children has a sort subscription left,
\* also a child that was instantiated but not yet live when sorting was
\* applied again or deactivated; a later change of the former order key of
\* a child reorders nothing and raises no error.
C32_DeactivatedSortIsGone ==
  [][/\ (op'.kind = "assign" /\ op'.ev = "orderBy" /\ op'.val = Str("")) =>
          (err' = "" /\ Unsorted(ctl', op'.c))
     /\ \A p \in DOMAIN ctl :
          (ctl[p].reactive /\ ctl[p].props["orderBy"] = Str("")
           /\ ctl'[p].props["orderBy"] = Str("")) =>
            /\ Unsorted(ctl', p)
            /\ (op'.kind = "assign" /\ op'.ev = "rank" /\ ctl[op'.c].parent = p) =>
                 (err' = "" /\ ctl'[p].dom = ctl[p].dom)]_vars

(***************************************************************************)
(* Stalled insertions: the page of SpecPlace, where the application also   *)
(* assigns the rank of a live child.                                       *)
(***************************************************************************)

NextStall ==
  \/ NextPlace
  \/ \E c \in DOMAIN ctl : ctl[c].reactive /\ ctl[c].init /\ AssignCall(c, "rank", Num(3))

SpecStall == InitSort /\ [][NextStall]_vars

\* The insertion of control c has stalled: c is the first of the queue of
\* its container and not live, and either the attempt has been abandoned or
\* the insertion step has failed: c has not been removed and its element is
\* in no container.
Stalled(cs, c) ==
  /\ cs[c].parent # 0
  /\ HeadOfQueue(cs, c)
  /\ ~cs[c].init
  /\ Abandoned(cs, c) \/ (cs[c].removed = 0 /\ Host(cs, c) = 0)

\* The controls that wait in the queue of the container of control c.
QueueOf(cs, c) == ElementQueue(cs, cs[c].parent, JsToString(cs[c].props["parentElement"]))

\* C37: once the insertion of a control has been abandoned or its insertion
\* step has raised an error, the control stays the first of the queue of
\* its container and no control of that queue becomes live, while the first
\* control of the queue of another container of the same parent is still
\* made live by its observer or its fallback poll.
C37_StalledHeadBlocksQueue ==
  [][\A c \in DOMAIN ctl :
       Stalled(ctl, c) =>
         /\ HeadOfQueue(ctl', c) /\ ~ctl'[c].init
         /\ \A i \in DOMAIN QueueOf(ctl', c) : ~ctl'[QueueOf(ctl', c)[i]].init
         /\ (/\ op'.kind \in {"htmlInit", "poll"}
             /\ ctl[op'.c].parent = ctl[c].parent
             /\ ctl[op'.c].props["parentElement"] # ctl[c].props["parentElement"]
             /\ InDocument(ctl, op'.c)) => ctl'[op'.c].init]_vars

(***************************************************************************)
(* Data binding: a page whose control scripts are all loaded, Field among  *)
(* them; the application asks the top-level container for the children a  *)
(* and b of class Field and assigns their label, and the user edits the    *)
(* input and the select element of each.                                   *)
(***************************************************************************)

\* The values the application gives to label.
BindValues == {Str("x"), Str("1"), Num(1), Num(2)}

\* What the user types or selects.
BindTexts == {"", "x", "1", "2"}

\* {a: {controlType: "Field", label: v}} and {b: {controlType: "Field"}}
BindPayloads ==
  {Payload("", EmptyMap, "a" :> Payload("Field", "label" :> v, EmptyMap, FALSE), FALSE) :
     v \in BindValues}
  \cup {Payload("", EmptyMap, "b" :> Payload("Field", EmptyMap, EmptyMap, FALSE), FALSE)}

\* The user has changed element i of control c to text, and the element
\* raises its change event.
ChangeEvent(c, i, text) ==
  /\ Idle
  /\ i \in DOMAIN ctl[c].elements
  /\ ctl[c].elements[i].event = "change"
  /\ ctl[c].removed = 0 /\ InDocument(ctl, c)
  /\ ctl[c].elements[i].val # Str(text)
  /\ Task(ElementChange(World, c, i, text),
          Op("change", c, ctl[c].elements[i].elementType, "", Str(text), NoPayload))

InitBind == TreeInit(Types \cup {"Field"})

NextBind ==
  \/ \E p \in BindPayloads :
       /\ DOMAIN p.kids \cap DOMAIN ctl[1].controls = {} /\ timers = <<>>
       /\ SetCall(1, p)
  \/ \E c \in DOMAIN ctl : \E v \in BindValues :
       ctl[c].reactive /\ AssignCall(c, "label", v)
  \/ \E c \in DOMAIN ctl : \E i \in 1..Len(Template("Field")) : \E s \in BindTexts :
       ChangeEvent(c, i, s)
  \/ TimerFire
  \/ \E c \in DOMAIN ctl : ObserverFire(c)
  \/ \E c \in DOMAIN ctl : ObserverMiss(c)
  \/ \E c \in DOMAIN ctl : PollFire(c)

SpecBind == InitBind /\ [][NextBind]_vars

\* The writes of attributes of element e of control c a step has made.
AttrWrites(l, c, e) ==
  Cardinality({j \in DOMAIN l : l[j].kind = "attr" /\ l[j].c = c /\ l[j].ev = e})

\* The assignments to property k of control c made by listeners of elements.
ListenerWrites(l, c, k) ==
  Cardinality({j \in DOMAIN l : l[j].kind = "write" /\ l[j].c = c /\ l[j].ev = k})

\* The times the setter of property k of control c has stored a value (it
\* emits the property's event when it does).
Stores(l, c, k) ==
  Cardinality({j \in DOMAIN l : l[j].kind = "emit" /\ l[j].c = c /\ l[j].ev = k})

\* The elements of control c bound to property k.
ElementsOf(cs, c, k) == {i \in DOMAIN cs[c].elements : cs[c].elements[i].property = k}

\* An assignment that changes property k of control c writes every element
\* bound to k once, and no listener assigns the property.
PropertyToElements(cs, ds, l, c, k, val) ==
  /\ ds[c].props[k] = val
  /\ Stores(l, c, k) = 1
  /\ ListenerWrites(l, c, k) = 0
  /\ \A i \in ElementsOf(cs, c, k) :
       /\ AttrWrites(l, c, cs[c].elements[i].elementType) = 1
       /\ ds[c].elements[i].val = Written(val)

\* The change event of element i of control c, edited to text: the listener
\* assigns the property once, the element is not written, and when the
\* value read back differs from the property every other element bound to
\* the property is written once and holds the value.
ElementToProperty(cs, ds, l, c, i, text) ==
  LET k == cs[c].elements[i].property
      v == ReadBack(cs[c].props[k], text)
  IN /\ ListenerWrites(l, c, k) = 1
     /\ AttrWrites(l, c, cs[c].elements[i].elementType) = 0
     /\ ds[c].elements[i].val = Str(text)
     /\ ~ds[c].elements[i].block1
     /\ IF LooseEq(cs[c].props[k], v)
        THEN /\ Stores(l, c, k) = 0
             /\ ds[c].props[k] = cs[c].props[k]
             /\ \A j \in ElementsOf(cs, c, k) \ {i} : ds[c].elements[j] = cs[c].elements[j]
        ELSE /\ Stores(l, c, k) = 1
             /\ ds[c].props[k] = v
             /\ \A j \in ElementsOf(cs, c, k) \ {i} :
                  /\ AttrWrites(l, c, cs[c].elements[j].elementType) = 1
                  /\ ds[c].elements[j].val = Written(v)

\* The index of the element of control c of type e.
ElementOf(cs, c, e) == CHOOSE i \in DOMAIN cs[c].elements : cs[c].elements[i].elementType = e

Undefined == [t |-> "undefined", n |-> 0, s |-> ""]

\* The fields the constructor of a class assigns.  Item:
\*   constructor() { super(); this.rank = 0; this.label = ''; }
DmFields(type) ==
  IF type = "Item" THEN ("rank" :> Num(0)) @@ ("label" :> Str("")) ELSE EmptyMap

\* The order of the property keys in the data objects of the model.
DmPropOrder == <<"rank", "label">>

\* new <type>()
DmNew(type) ==
  [type |-> type, controlName |-> "", parent |-> 0, fields |-> DmFields(type),
   properties |-> EmptyMap, accessors |-> {}, controls |-> EmptyMap, hideData |-> FALSE]

\* The state the synchronous code works on.
DmWorld == [ctl |-> ctl, log |-> <<>>, err |-> ""]

\* this[k] for a property name k: through the getter once it is defined,
\* the instance field before.
DmRead(cs, c, k) ==
  IF k \in cs[c].accessors
  THEN (IF k \in DOMAIN cs[c].properties THEN cs[c].properties[k] ELSE Undefined)
  ELSE IF k \in DOMAIN cs[c].fields THEN cs[c].fields[k] ELSE Undefined

\* emit(eventName, data) on control c
DmEmit(W, c, ev, data) ==
  [W EXCEPT !.log = Append(@, [kind |-> "emit", c |-> c, ev |-> ev, data |-> data, fn |-> 0])]

\* d != v where d may be undefined
DmDiffers(d, v) == d = Undefined \/ ~LooseEq(d, v)

RECURSIVE DmSet(_, _, _)
RECURSIVE DmSetProps(_, _, _, _)
RECURSIVE DmSetKids(_, _, _, _)
RECURSIVE DmCreateControl(_, _, _, _)

\* dm.Set, the property keys of the data: a key whose value this[k] is a
\* number, string or boolean is written to _properties, and the property's
\* event is emitted when the entry of _properties changes.
DmSetProps(W, c, p, i) ==
  IF i > Len(DmPropOrder) THEN W
  ELSE LET k == DmPropOrder[i]
           d == IF k \in DOMAIN W.ctl[c].properties THEN W.ctl[c].properties[k] ELSE Undefined
           V == [W EXCEPT !.ctl[c].properties = Put(@, k, p.props[k])]
       IN IF k \in DOMAIN p.props /\ DmRead(W.ctl, c, k) # Undefined
          THEN DmSetProps(IF DmDiffers(d, p.props[k])
                          THEN DmEmit(V, c, k, EvData(p.props[k])) ELSE V,
                          c, p, i + 1)
          ELSE DmSetProps(W, c, p, i + 1)

\* dm.Set, the child keys of the data: an existing child receives the
\* data, a missing one is created when the data has a controlType.
DmSetKids(W, c, p, i) ==
  IF i > Len(KidOrder) THEN W
  ELSE LET k == KidOrder[i]
       IN IF k \notin DOMAIN p.kids THEN DmSetKids(W, c, p, i + 1)
          ELSE IF k \in DOMAIN W.ctl[c].controls
               THEN DmSetKids(DmSet(W, W.ctl[c].controls[k], p.kids[k]), c, p, i + 1)
               ELSE IF p.kids[k].controlType # ""
                    THEN DmSetKids(DmCreateControl(W, c, p.kids[k], k), c, p, i + 1)
                    ELSE DmSetKids(W, c, p, i + 1)

\* dm.Set(data), with this = c
DmSet(W, c, p) == DmSetKids(DmSetProps(W, c, p, 1), c, p, 1)

\* _createControl, the getters and setters: every field that holds a
\* number, string or boolean is copied to _properties and replaced by an
\* accessor.
DefineAccessors(W, c) ==
  [W EXCEPT !.ctl[c].properties =
              [k \in DOMAIN @ \cup DOMAIN W.ctl[c].fields |->
                 IF k \in DOMAIN W.ctl[c].fields THEN DmRead(W.ctl, c, k) ELSE @[k]],
            !.ctl[c].accessors = @ \cup DOMAIN W.ctl[c].fields]

\* dm._createControl(data, name), with this = p: the instance is created
\* and given the data, entered in the child list, given its getters and
\* setters and initialised; the parent emits the name.
DmCreateControl(W, p, data, name) ==
  IF data.controlType \notin cls THEN W
  ELSE LET c == Len(W.ctl) + 1
           W1 == [W EXCEPT !.ctl = Append(@, [DmNew(data.controlType) EXCEPT
                                                !.controlName = name, !.parent = p])]
           W2 == DmSet(W1, c, data)
           W3 == [W2 EXCEPT !.ctl[p].controls = Put(@, name, c)]
       IN DmEmit(DefineAccessors(W3, c), p, name, ControlData(c))

RECURSIVE DmGet(_, _)
\* dm.Get(): the entries of _properties, and under its key the data of
\* every child whose hideData is not set.
DmGet(cs, c) ==
  [props |-> cs[c].properties,
   kids |-> [k \in {n \in DOMAIN cs[c].controls : ~cs[cs[c].controls[n]].hideData} |->
               DmGet(cs, cs[c].controls[k])]]

RECURSIVE DmNotify(_, _, _)
\* dm.Notify(data): the data is wrapped in the name of the control and
\* passed to the parent; the top-level control emits it.
DmNotify(W, c, data) ==
  IF W.ctl[c].parent # 0
  THEN (IF ~W.ctl[c].hideData
        THEN DmNotify(W, W.ctl[c].parent, [data EXCEPT !.path = <<W.ctl[c].controlName>> \o @])
        ELSE W)
  ELSE DmEmit(W, c, "data", data)

\* control[k] = v: the setter once it is defined (a change is stored,
\* emitted and notified), the instance field before.
DmAssign(W, c, k, v) ==
  IF k \notin W.ctl[c].accessors
  THEN [W EXCEPT !.ctl[c].fields = Put(@, k, v)]
  ELSE IF DmDiffers(DmRead(W.ctl, c, k), v)
       THEN DmNotify(DmEmit([W EXCEPT !.ctl[c].properties = Put(@, k, v)], c, k, EvData(v)),
                     c, [v |-> v, k |-> k, path |-> <<>>])
       ELSE W

(***************************************************************************)
(* A data tree: the application builds a tree of Item controls under a     *)
(* top-level dm control with Set, updates it with Set and assigns          *)
(* properties.                                                             *)
(***************************************************************************)

\* Property values of the data objects.
DmRanks == {Num(0), Num(2)}
DmLabels == {Str(""), Str("x")}

\* {rank: r}, {label: l} and {rank: r, label: l}
DmProps ==
  {"rank" :> r : r \in DmRanks} \cup {"label" :> l : l \in DmLabels}
    \cup {("rank" :> r) @@ ("label" :> l) : r \in DmRanks, l \in DmLabels}

\* {n: {controlType: "Item", ...}}, {n: {...}} and
\* {a: {controlType: "Item", ..., a: {controlType: "Item", rank: 2}}}
DmPayloads ==
  {Payload("", EmptyMap, n :> Payload(t, q, EmptyMap, FALSE), FALSE) :
     n \in {"a", "b"}, t \in {"Item", ""}, q \in DmProps}
  \cup {Payload("", EmptyMap,
                "a" :> Payload("Item", q,
                               "a" :> Payload("Item", "rank" :> Num(2), EmptyMap, FALSE),
                               FALSE),
                FALSE) : q \in DmProps}

DmTask(W, o) ==
  /\ ctl' = W.ctl
  /\ log' = W.log
  /\ err' = W.err
  /\ op' = o
  /\ UNCHANGED <<cls, pendingScripts, scriptWaiters, loads, reqs, timers, fnc>>

\* The application calls control.Set(p).
DmSetCall(c, p) ==
  \E W \in {DmSet(DmWorld, c, p)} :
    /\ Len(W.ctl) <= MaxCtl
    /\ DmTask(W, Op("dmSet", c, "", "", Str(""), p))

\* The application assigns control[k] = v.
DmAssignCall(c, k, v) ==
  /\ k \in DOMAIN ctl[c].fields
  /\ DmTask(DmAssign(DmWorld, c, k, v), Op("dmAssign", c, k, "", v, NoPayload))

\* const top = new dm(); the modules of the classes can be required.
InitDm ==
  /\ cls = {"Item"}
  /\ pendingScripts = [r \in Roots |-> {}]
  /\ scriptWaiters = [r \in Roots |-> [n \in Types |-> <<>>]]
  /\ loads = <<>>
  /\ reqs = <<>>
  /\ ctl = <<DmNew("dm")>>
  /\ timers = <<>>
  /\ fnc = 0
  /\ log = <<>>
  /\ err = ""
  /\ op = NoOp

NextDm ==
  \/ \E c \in DOMAIN ctl : \E p \in DmPayloads : DmSetCall(c, p)
  \/ \E c \in DOMAIN ctl : \E v \in DmRanks : DmAssignCall(c, "rank", v)
  \/ \E c \in DOMAIN ctl : \E v \in DmLabels : DmAssignCall(c, "label", v)

SpecDm == InitDm /\ [][NextDm]_vars

\* The children a Set call with data p on control c creates: the keys with
\* a controlType of a loaded class under which c has no child.
DmCreates(cs, c, p) ==
  {n \in DOMAIN p.kids : n \notin DOMAIN cs[c].controls /\ p.kids[n].controlType \in cls}

\* The child under key n of control c holds the values of data d: its
\* getters return them, and so do its Get() and the Get() of c.
HoldsData(cs, c, n, d) ==
  /\ n \in DOMAIN cs[c].controls
  /\ \A k \in DOMAIN d.props \cap DOMAIN DmFields(d.controlType) :
       /\ DmRead(cs, cs[c].controls[n], k) = d.props[k]
       /\ k \in DOMAIN DmGet(cs, cs[c].controls[n]).props
       /\ DmGet(cs, cs[c].controls[n]).props[k] = d.props[k]
       /\ n \in DOMAIN DmGet(cs, c).kids
       /\ k \in DOMAIN DmGet(cs, c).kids[n].props
       /\ DmGet(cs, c).kids[n].props[k] = d.props[k]

\* C40: after a Set of a parent has created a child from a data object,
\* the properties of the child hold the values of the data object: the
\* getters and Get() of the child return them, and Get() of the parent has
\* them under the key of the child.
C40_CreatedChildHoldsData ==
  [][op'.kind = "dmSet"
     => \A n \in DmCreates(ctl, op'.c, op'.p) : HoldsData(ctl', op'.c, n, op'.p.kids[n])]_vars
====
